---- MODULE Spec2Model ----
(***************************************************************************)
(* Model of the template parser of mist-ts/parser.                         *)
(*                                                                         *)
(* The source text is a sequence of one-character strings, indexed from 0  *)
(* as in the source (getCharAt adds the 1 that TLA+ sequences need).  The     *)
(* recursive descent of Parser is run as a state machine: the cursor       *)
(* (#index, #line), the open block-reading calls (stack, innermost last),  *)
(* the statement #parseOnce has just returned (pending), and the locals of *)
(* parse() (statements and the three gates).                               *)
(***************************************************************************)
EXTENDS Integers, Sequences, FiniteSets, TLC

VARIABLES
    code,                       \* Parser.#code
    index,                      \* Parser.#index
    line,                       \* Parser.#line
    stack,                      \* open #parseUntilStatment calls, innermost last
    pending,                    \* <<>> or <<s>>: s returned by #parseOnce, not yet handled
    statements,                 \* parse(): const statements
    allowImportStatements,      \* parse(): let allowImportStatements
    allowDefineSlotStatement,   \* parse(): let allowDefineSlotStatement
    allowParamStatement,        \* parse(): let allowParamStatement
    status,                     \* "running" | "returned" | "error"
    error,                      \* <<>> or <<e>>: the ParserError thrown
    call                        \* <<>> or <<c>>: the last call made besides parse()

vars == <<code, index, line, stack, pending, statements, allowImportStatements,
          allowDefineSlotStatement, allowParamStatement, status, error, call>>

-----------------------------------------------------------------------------
(* Characters and the cursor                                               *)

\* what indexing past the end of a JS string gives
undefined == ""

PAREN_START == {"(", "[", "{"}
PAREN_END == {")", "]", "}"}

\* the white space String.prototype.trim removes, as far as the inputs have it
WhiteSpace == {" ", "\n", "\t"}

\* the characters /^[a-z0-9-_]$/i accepts
TagChars ==
    {"a", "b", "c", "d", "e", "f", "g", "h", "i", "j", "k", "l", "m", "n", "o",
     "p", "q", "r", "s", "t", "u", "v", "w", "x", "y", "z",
     "A", "B", "C", "D", "E", "F", "G", "H", "I", "J", "K", "L", "M", "N", "O",
     "P", "Q", "R", "S", "T", "U", "V", "W", "X", "Y", "Z",
     "0", "1", "2", "3", "4", "5", "6", "7", "8", "9", "-", "_"}

getCharAt(i) == IF i >= Len(code) THEN undefined ELSE code[i + 1]

\* a cursor is [index, line]
Cursor(i, l) == [index |-> i, line |-> l]

currentChar(c) == getCharAt(c.index)

peek(c, at) == getCharAt(c.index + at)

isAtEnd(c) == currentChar(c) = undefined

RECURSIVE advance(_, _)
advance(c, times) ==
    IF times = 0 THEN c
    ELSE advance(Cursor(c.index + 1,
                        IF getCharAt(c.index + 1) = "\n" THEN c.line + 1 ELSE c.line),
                 times - 1)

PositionRange(start, lineStart, end) ==
    [start |-> start, lineStart |-> lineStart, end |-> end]

\* an empty position, whose end is its start
createPositionEmpty(c) == PositionRange(c.index, c.line, c.index)

createPosition(c) == PositionRange(c.index, c.line, c.index + 1)

\* code.slice(from, to)
slice(from, to) == SubSeq(code, from + 1, to)

isValidTagChar(ch) == ch \in TagChars

RECURSIVE areNextCharsFrom(_, _, _)
areNextCharsFrom(c, controll, i) ==
    IF i > Len(controll) THEN TRUE
    ELSE IF getCharAt(c.index + i - 1) # controll[i] THEN FALSE
    ELSE areNextCharsFrom(c, controll, i + 1)

areNextChars(c, controll) == areNextCharsFrom(c, controll, 1)

-----------------------------------------------------------------------------
(* Errors                                                                  *)

PositionInFile(i, ln, column) == [index |-> i, line |-> ln, col |-> column]

\* getPositionInFile: `line` after the loop has handled offset i, the number
\* of line breaks at the offsets 0..i
lineAfter(i) == Cardinality({k \in 0..i : getCharAt(k) = "\n"})

\* getPositionInFile: `column` after the loop has handled offset i, the
\* number of offsets handled since the last line break
columnAfter(i) ==
    Cardinality({k \in 0..i : \A n \in k..i : getCharAt(n) # "\n"})

\* startPos is set, when the loop handles the offset position.start, only if
\* that offset is below position.end; <<>> is startPos left undefined
getPositionInFile(position) ==
    [start |-> IF 0 <= position.start /\ position.start < position.end
               THEN <<PositionInFile(position.start, lineAfter(position.start),
                                     columnAfter(position.start))>>
               ELSE <<>>,
     end |-> PositionInFile(position.end, lineAfter(position.end - 1),
                            columnAfter(position.end - 1))]

\* new ParserError(...): reading positionInFile.start.line throws a TypeError
\* when getPositionInFile has left start undefined
ParserError(position, message) ==
    IF getPositionInFile(position).start = <<>>
    THEN [class |-> "TypeError", position |-> position, baseMessage |-> undefined]
    ELSE [class |-> "ParserError", position |-> position, baseMessage |-> message]

createUnexpctedError(position) == ParserError(position, "Unexpcted")
createInvalidTagNameError(position) == ParserError(position, "InvalidTagName")
createDisalowedTagContexError(position) == ParserError(position, "DisalowedTagContex")
createUnexpectedAmountOfArgumentsError(position) ==
    ParserError(position, "UnexpectedAmountOfArguments")
createEmptyExpressionError(position) == ParserError(position, "EmptyExpression")
createInvalidImportSlotsParamsOrder(position) ==
    ParserError(position, "InvalidImportSlotsParamsOrder")
createSlotOutsideComponenterror(position) ==
    ParserError(position, "SlotOutsideComponent")
createSlotDefinitionNamedMainError(position) ==
    ParserError(position, "SlotDefinitionNamedMain")

\* what a sub-parser gives back when it throws
Throw(e) == [kind |-> "throw", thrown |-> TRUE, error |-> e]

-----------------------------------------------------------------------------
(* Argument scanning                                                       *)
(*                                                                         *)
(* A function of the source that runs several steps in a row is written    *)
(* as several operators, each taking the results of the steps before it as *)
(* parameters.                                                             *)

RECURSIVE countLeading(_, _)
countLeading(value, i) ==
    IF i > Len(value) THEN Len(value)
    ELSE IF value[i] \in WhiteSpace THEN countLeading(value, i + 1)
    ELSE i - 1

RECURSIVE countTrailing(_, _)
countTrailing(value, i) ==
    IF i < 1 THEN Len(value)
    ELSE IF value[i] \in WhiteSpace THEN countTrailing(value, i - 1)
    ELSE Len(value) - i

trimStart(value) == SubSeq(value, countLeading(value, 1) + 1, Len(value))

trimEnd(value) == SubSeq(value, 1, Len(value) - countTrailing(value, Len(value)))

\* a trimmed value with a position whose end stays where the scan ended
trimedWithPositionEndKept(value, valueTrimedStart, valueTrimedEnd, position) ==
    [value |-> valueTrimedEnd,
     position |->
         PositionRange(position.start + (Len(value) - Len(valueTrimedStart)),
                       position.lineStart, position.end)]

\* #trimWithPosition, given valueTrimedStart and valueTrimedEnd
trimedWithPosition(value, valueTrimedStart, valueTrimedEnd, position) ==
    [value |-> valueTrimedEnd,
     position |->
         PositionRange(position.start + (Len(value) - Len(valueTrimedStart)),
                       position.lineStart,
                       position.end - (Len(valueTrimedStart) - Len(valueTrimedEnd)))]

trimWithPosition(value, position) ==
    trimedWithPosition(value, trimStart(value), trimEnd(trimStart(value)), position)

\* the for loop over untilChars: 0, or the place of the first terminator that matches
RECURSIVE firstMatch(_, _, _)
firstMatch(c, untilChars, k) ==
    IF k > Len(untilChars) THEN 0
    ELSE IF areNextChars(c, untilChars[k]) THEN k
    ELSE firstMatch(c, untilChars, k + 1)

\* #skipUntilAndWith once `controll` has matched at c
skipUntilAndWithMatch(c, controll, trimed, start, allowEmpty) ==
    IF ~allowEmpty /\ Len(trimed.value) = 0
    THEN Throw(createEmptyExpressionError(
             PositionRange(start.index, start.line,
                           IF start.index = c.index THEN start.index + 1
                           ELSE c.index)))
    ELSE [kind |-> "value", thrown |-> FALSE,
          cur |-> advance(c, Len(controll)),
          position |-> trimed.position,
          value |-> trimed.value,
          controllChar |-> controll]

RECURSIVE skipUntilAndWithLoop(_, _, _, _, _)
RECURSIVE skipUntilAndWithControll(_, _, _, _, _)

\* the while loop of #skipUntilAndWith
skipUntilAndWithLoop(c, depth, start, untilChars, allowEmpty) ==
    IF currentChar(c) = undefined
    THEN Throw(createUnexpctedError(createPosition(c)))
    ELSE IF currentChar(c) \in PAREN_START
    THEN skipUntilAndWithLoop(advance(c, 1), depth + 1, start, untilChars, allowEmpty)
    ELSE IF depth > 0 /\ currentChar(c) \in PAREN_END
    THEN skipUntilAndWithLoop(advance(c, 1), depth - 1, start, untilChars, allowEmpty)
    ELSE IF depth = 0
    THEN skipUntilAndWithControll(c, firstMatch(c, untilChars, 1), start, untilChars,
                                  allowEmpty)
    ELSE skipUntilAndWithLoop(advance(c, 1), depth, start, untilChars, allowEmpty)

\* its `if (depth === 0)`; k is the place of the terminator that matches, or 0
skipUntilAndWithControll(c, k, start, untilChars, allowEmpty) ==
    IF k = 0
    THEN skipUntilAndWithLoop(advance(c, 1), 0, start, untilChars, allowEmpty)
    ELSE skipUntilAndWithMatch(c, untilChars[k],
             trimWithPosition(slice(start.index, c.index),
                              PositionRange(start.index, start.line, c.index)),
             start, allowEmpty)

skipUntilAndWith(c, untilChars, allowEmpty) ==
    skipUntilAndWithLoop(c, 0, c, untilChars, allowEmpty)

\* #consume(char): the cursor after it, or the error
consume(c, char) ==
    IF currentChar(c) # char
    THEN Throw(createUnexpctedError(createPosition(c)))
    ELSE [kind |-> "cursor", thrown |-> FALSE, cur |-> advance(c, 1)]

\* #skipUntilAndWith(untilChars) from where the step `previous` ended, unless
\* that step threw
skipAfter(previous, untilChars) ==
    IF previous.thrown THEN previous
    ELSE skipUntilAndWith(previous.cur, untilChars, FALSE)

RECURSIVE parseParamsLoop(_, _)
RECURSIVE parseParamsPush(_, _)

\* the do-while of #parseParams
parseParamsLoop(c, parsedArguments) ==
    parseParamsPush(skipUntilAndWith(c, <<<<",">>, <<")">>>>, TRUE), parsedArguments)

parseParamsPush(argument, parsedArguments) ==
    IF argument.thrown THEN argument
    ELSE IF argument.controllChar # <<")">>
    THEN parseParamsLoop(argument.cur,
             Append(parsedArguments,
                    [value |-> argument.value, position |-> argument.position]))
    ELSE [kind |-> "arguments", thrown |-> FALSE, cur |-> argument.cur,
          arguments |-> Append(parsedArguments,
                               [value |-> argument.value,
                                position |-> argument.position])]

\* parsedArguments without a last argument that is empty
dropEmptyLast(arguments) ==
    IF Len(arguments) > 0 /\ Len(arguments[Len(arguments)].value) = 0
    THEN SubSeq(arguments, 1, Len(arguments) - 1)
    ELSE arguments

\* #parseParams after its loop
parseParamsCount(r, expectedCount) ==
    IF r.thrown THEN r
    ELSE IF expectedCount # Len(dropEmptyLast(r.arguments))
    THEN Throw(createUnexpectedAmountOfArgumentsError(createPosition(r.cur)))
    ELSE [kind |-> "arguments", thrown |-> FALSE, cur |-> r.cur,
          arguments |-> dropEmptyLast(r.arguments)]

parseParams(c, expectedCount) ==
    IF currentChar(c) # "("
    THEN IF expectedCount # 0
         THEN Throw(createUnexpectedAmountOfArgumentsError(createPosition(c)))
         ELSE [kind |-> "arguments", thrown |-> FALSE, cur |-> c, arguments |-> <<>>]
    ELSE parseParamsCount(parseParamsLoop(advance(c, 1), <<>>), expectedCount)

-----------------------------------------------------------------------------
(* Expressions and statements                                              *)

TsCodeExpression(position, value) == [position |-> position, value |-> value]

\* An optional constructor argument is <<>> (undefined) or <<x>>.
\* class is the JS class of the node, name its `name` property.

TextStatement(position, value) ==
    [class |-> "TextStatement", name |-> "TextStatement",
     hasToBeHandledInParse |-> FALSE, position |-> position, value |-> value]

InlineTsCodeStatement(position, value) ==
    [class |-> "InlineTsCodeStatement", name |-> "InlineTsCodeStatement",
     hasToBeHandledInParse |-> FALSE, position |-> position, expression |-> value]

InlineSafeTsCodeStatement(position, expression) ==
    [class |-> "InlineSafeTsCodeStatement", name |-> "InlineSafeTsCodeStatement",
     hasToBeHandledInParse |-> FALSE, position |-> position, expression |-> expression]

EachStatement(position, iterator, variable, children) ==
    [class |-> "EachStatement", name |-> "EachStatement",
     hasToBeHandledInParse |-> FALSE, position |-> position,
     iterator |-> iterator, variable |-> variable, children |-> children]

EndStatement(position) ==
    [class |-> "EndStatement", name |-> "EndStatement",
     hasToBeHandledInParse |-> FALSE, position |-> position]

IfStatement(position, expression, children, next) ==
    [class |-> "IfStatement", name |-> "IfStatement",
     hasToBeHandledInParse |-> FALSE, position |-> position,
     expression |-> expression, children |-> children, next |-> next]

ElseIfStatement(position, expression, children, next) ==
    [class |-> "ElseIfStatement", name |-> "ElseIfStatement",
     hasToBeHandledInParse |-> TRUE, position |-> position,
     expression |-> expression, children |-> children, next |-> next]

\* an Else that parse() would not have to reject
ElseStatementUnflagged(position, children) ==
    [class |-> "ElseStatement", name |-> "ElseStatement",
     hasToBeHandledInParse |-> FALSE, position |-> position, children |-> children]

ElseStatement(position, children) ==
    [class |-> "ElseStatement", name |-> "ElseStatement",
     hasToBeHandledInParse |-> TRUE, position |-> position, children |-> children]

LetStatement(position, variableName, value) ==
    [class |-> "LetStatement", name |-> "LetStatement",
     hasToBeHandledInParse |-> FALSE, position |-> position,
     variableName |-> variableName, value |-> value]

\* statement.ts:490: the name of an AssignStatement is StatementName.LetStatement
AssignStatement(position, variableName, value) ==
    [class |-> "AssignStatement", name |-> "LetStatement",
     hasToBeHandledInParse |-> FALSE, position |-> position,
     variableName |-> variableName, value |-> value]

ParamStatement(position, name, type, defaultValue) ==
    [class |-> "ParamStatement", name |-> "ParamStatement",
     hasToBeHandledInParse |-> FALSE, position |-> position,
     paramName |-> name, type |-> type, defaultValue |-> defaultValue]

ImportStatement(position, expression) ==
    [class |-> "ImportStatement", name |-> "ImportStatement",
     hasToBeHandledInParse |-> FALSE, position |-> position, expression |-> expression]

DefineSlotStatement(position, slotName, slotArguments) ==
    [class |-> "DefineSlotStatement", name |-> "DefineSlotStatement",
     hasToBeHandledInParse |-> FALSE, position |-> position,
     slotName |-> slotName, slotArguments |-> slotArguments]

ComponentStatement(position, component, params, mainSlot, slots) ==
    [class |-> "ComponentStatement", name |-> "ComponentStatement",
     hasToBeHandledInParse |-> FALSE, position |-> position,
     component |-> component, params |-> params,
     mainSlot |-> mainSlot, slots |-> slots]

ComponentMainSlotStatement(position, children) ==
    [class |-> "ComponentMainSlotStatement", name |-> "ComponentMainSlotStatement",
     hasToBeHandledInParse |-> TRUE, position |-> position, children |-> children]

ComponentSlotStatement(position, slotName, paramsVariable, children) ==
    [class |-> "ComponentSlotStatement", name |-> "ComponentSlotStatement",
     hasToBeHandledInParse |-> TRUE, position |-> position,
     slotName |-> slotName, paramsVariable |-> paramsVariable, children |-> children]

-----------------------------------------------------------------------------
(* What #parseOnce gives back                                              *)

\* a statement that is complete when its header is read
Statement(s, c) == [kind |-> "statement", thrown |-> FALSE, statement |-> s, cur |-> c]

\* a block statement whose header is read: the function `make` goes on with
\* #parseUntilStatment(statementNames, allowSlotStatement), whose local
\* `statements` the frame holds
Block(make, startIndex, startLine, args, statementNames, allowSlotStatement, c) ==
    [kind |-> "block", thrown |-> FALSE, cur |-> c,
     frame |-> [make |-> make, startIndex |-> startIndex, startLine |-> startLine,
                args |-> args, statementNames |-> statementNames,
                allowSlotStatement |-> allowSlotStatement, statements |-> <<>>]]

-----------------------------------------------------------------------------
(* The sub-parsers of #parseOnce                                           *)

\* a sequence of characters as one string
RECURSIVE str(_)
str(chars) == IF chars = <<>> THEN "" ELSE Head(chars) \o str(Tail(chars))

Expression(valuePos) == TsCodeExpression(valuePos.position, valuePos.value)

\* #makeInlineTsCodeStatement after this.#consume("}")
makeInlineTsCodeStatementNew(expressionPosValue, closed, startIndex, startLine, isUnsafe) ==
    IF closed.thrown THEN closed
    ELSE IF isUnsafe
    THEN Statement(InlineTsCodeStatement(
                       PositionRange(startIndex, startLine, closed.cur.index),
                       Expression(expressionPosValue)),
                   closed.cur)
    ELSE Statement(InlineSafeTsCodeStatement(
                       PositionRange(startIndex, startLine, closed.cur.index),
                       Expression(expressionPosValue)),
                   closed.cur)

\* #makeInlineTsCodeStatement after its #skipUntilAndWith
makeInlineTsCodeStatementClose(expressionPosValue, startIndex, startLine, isUnsafe) ==
    IF expressionPosValue.thrown THEN expressionPosValue
    ELSE makeInlineTsCodeStatementNew(expressionPosValue,
                                      consume(expressionPosValue.cur, "}"),
                                      startIndex, startLine, isUnsafe)

makeInlineTsCodeStatement(c) ==
    makeInlineTsCodeStatementClose(
        skipUntilAndWith(advance(IF currentChar(c) = "!" THEN advance(c, 1) ELSE c, 2),
                         <<<<"}">>>>, TRUE),
        c.index, c.line, currentChar(c) = "!")

skipInlineComment(c) ==
    skipUntilAndWith(advance(c, 4), <<<<"-", "-", "}", "}">>>>, TRUE)

\* #makeEachStatement after both #skipUntilAndWith
makeEachStatementChildren(variablePosValue, iteratorPosValue, startIndex, startLine) ==
    IF iteratorPosValue.thrown THEN iteratorPosValue
    ELSE Block("makeEachStatement", startIndex, startLine,
               [variable |-> Expression(variablePosValue),
                iterator |-> Expression(iteratorPosValue)],
               {"EndStatement"}, FALSE, iteratorPosValue.cur)

\* #makeEachStatement after the first #skipUntilAndWith
makeEachStatementIterator(variablePosValue, startIndex, startLine) ==
    IF variablePosValue.thrown THEN variablePosValue
    ELSE IF variablePosValue.controllChar # <<" ", "i", "n", " ">>
    THEN Throw(createUnexpctedError(
             PositionRange(variablePosValue.position.end, startLine,
                           variablePosValue.position.end + 1)))
    ELSE makeEachStatementChildren(
             variablePosValue,
             skipUntilAndWith(variablePosValue.cur, <<<<")">>>>, FALSE),
             startIndex, startLine)

makeEachStatement(c, startIndex, startLine) ==
    makeEachStatementIterator(
        skipAfter(consume(c, "("), <<<<" ", "i", "n", " ">>, <<")">>>>),
        startIndex, startLine)

\* #makeIfStatement and #makeElseIfStatement, which differ in the statement
\* they build, after their #skipUntilAndWith
makeConditionChildren(make, ifExpressionValuePos, startIndex, startLine) ==
    IF ifExpressionValuePos.thrown THEN ifExpressionValuePos
    ELSE Block(make, startIndex, startLine,
               [expression |-> Expression(ifExpressionValuePos)],
               {"ElseIfStatement", "ElseStatement", "EndStatement"},
               FALSE, ifExpressionValuePos.cur)

makeIfStatement(c, startIndex, startLine) ==
    makeConditionChildren("makeIfStatement",
                          skipAfter(consume(c, "("), <<<<")">>>>),
                          startIndex, startLine)

makeElseIfStatement(c, startIndex, startLine) ==
    makeConditionChildren("makeElseIfStatement",
                          skipAfter(consume(c, "("), <<<<")">>>>),
                          startIndex, startLine)

\* #makeElseStatement after this.#parseParams(0)
makeElseStatementChildren(params, startIndex, startLine) ==
    IF params.thrown THEN params
    ELSE Block("makeElseStatement", startIndex, startLine, [none |-> <<>>],
               {"EndStatement"}, FALSE, params.cur)

makeElseStatement(c, startIndex, startLine) ==
    makeElseStatementChildren(parseParams(c, 0), startIndex, startLine)

\* #makeLetStatement with a value
makeLetStatementNew(variableNameValuePos, valueValuePos, startIndex, startLine) ==
    IF valueValuePos.thrown THEN valueValuePos
    ELSE Statement(LetStatement(
                       PositionRange(startIndex, startLine, valueValuePos.cur.index),
                       Expression(variableNameValuePos),
                       <<Expression(valueValuePos)>>),
                   valueValuePos.cur)

\* #makeLetStatement after the first #skipUntilAndWith
makeLetStatementValue(variableNameValuePos, startIndex, startLine) ==
    IF variableNameValuePos.thrown THEN variableNameValuePos
    ELSE IF variableNameValuePos.controllChar = <<"=">>
    THEN makeLetStatementNew(
             variableNameValuePos,
             skipUntilAndWith(variableNameValuePos.cur, <<<<")">>>>, FALSE),
             startIndex, startLine)
    ELSE Statement(LetStatement(
                       PositionRange(startIndex, startLine,
                                     variableNameValuePos.cur.index),
                       Expression(variableNameValuePos), <<>>),
                   variableNameValuePos.cur)

makeLetStatement(c, startIndex, startLine) ==
    makeLetStatementValue(skipAfter(consume(c, "("), <<<<"=">>, <<")">>>>),
                          startIndex, startLine)

\* #makeAssignStatement after both #skipUntilAndWith
makeAssignStatementNew(variableNameValuePos, valueValuePos, startIndex, startLine) ==
    IF valueValuePos.thrown THEN valueValuePos
    ELSE Statement(AssignStatement(
                       PositionRange(startIndex, startLine, valueValuePos.cur.index),
                       Expression(variableNameValuePos),
                       Expression(valueValuePos)),
                   valueValuePos.cur)

\* #makeAssignStatement after the first #skipUntilAndWith
makeAssignStatementValue(variableNameValuePos, startIndex, startLine) ==
    makeAssignStatementNew(variableNameValuePos,
                           skipAfter(variableNameValuePos, <<<<")">>>>),
                           startIndex, startLine)

makeAssignStatement(c, startIndex, startLine) ==
    makeAssignStatementValue(skipAfter(consume(c, "("), <<<<"=">>>>),
                             startIndex, startLine)

\* #makeParamStatement with a default value
makeParamStatementNew(identifierNameValuePos, typeValuePos, defaultValuePos, startIndex, startLine) ==
    IF defaultValuePos.thrown THEN defaultValuePos
    ELSE Statement(ParamStatement(
                       PositionRange(startIndex, startLine, defaultValuePos.cur.index),
                       Expression(identifierNameValuePos),
                       Expression(typeValuePos),
                       <<Expression(defaultValuePos)>>),
                   defaultValuePos.cur)

\* #makeParamStatement after the second #skipUntilAndWith
makeParamStatementDefault(identifierNameValuePos, typeValuePos, startIndex, startLine) ==
    IF typeValuePos.thrown THEN typeValuePos
    ELSE IF typeValuePos.controllChar = <<"=">>
    THEN makeParamStatementNew(
             identifierNameValuePos, typeValuePos,
             skipUntilAndWith(typeValuePos.cur, <<<<")">>>>, FALSE),
             startIndex, startLine)
    ELSE Statement(ParamStatement(
                       PositionRange(startIndex, startLine, typeValuePos.cur.index),
                       Expression(identifierNameValuePos),
                       Expression(typeValuePos), <<>>),
                   typeValuePos.cur)

\* #makeParamStatement after the first #skipUntilAndWith
makeParamStatementType(identifierNameValuePos, startIndex, startLine) ==
    makeParamStatementDefault(identifierNameValuePos,
                              skipAfter(identifierNameValuePos, <<<<"=">>, <<")">>>>),
                              startIndex, startLine)

makeParamStatement(c, startIndex, startLine) ==
    makeParamStatementType(skipAfter(consume(c, "("), <<<<":">>>>),
                           startIndex, startLine)

\* #makeImportStatement after its #skipUntilAndWith
makeImportStatementNew(expressionValuePos, startIndex, startLine) ==
    IF expressionValuePos.thrown THEN expressionValuePos
    ELSE Statement(ImportStatement(
                       PositionRange(startIndex, startLine,
                                     expressionValuePos.cur.index),
                       Expression(expressionValuePos)),
                   expressionValuePos.cur)

makeImportStatement(c, startIndex, startLine) ==
    makeImportStatementNew(skipAfter(consume(c, "("), <<<<")">>>>),
                           startIndex, startLine)

\* #makeDefineSlotStatement with slot arguments
makeDefineSlotStatementNew(slotNameValuePos, slotArgumentsValuePos, startIndex, startLine) ==
    IF slotArgumentsValuePos.thrown THEN slotArgumentsValuePos
    ELSE Statement(DefineSlotStatement(
                       PositionRange(startIndex, startLine,
                                     slotArgumentsValuePos.cur.index),
                       Expression(slotNameValuePos),
                       <<Expression(slotArgumentsValuePos)>>),
                   slotArgumentsValuePos.cur)

\* #makeDefineSlotStatement comparing the name with main only when there are
\* no slot arguments
makeDefineSlotStatementArgumentsUntyped(slotNameValuePos, startIndex, startLine) ==
    IF slotNameValuePos.thrown THEN slotNameValuePos
    ELSE IF slotNameValuePos.controllChar = <<":">>
    THEN makeDefineSlotStatementNew(
             slotNameValuePos,
             skipUntilAndWith(slotNameValuePos.cur, <<<<")">>>>, FALSE),
             startIndex, startLine)
    ELSE IF str(slotNameValuePos.value) = "main"
    THEN Throw(createSlotDefinitionNamedMainError(slotNameValuePos.position))
    ELSE Statement(DefineSlotStatement(
                       PositionRange(startIndex, startLine, slotNameValuePos.cur.index),
                       Expression(slotNameValuePos), <<>>),
                   slotNameValuePos.cur)

\* #makeDefineSlotStatement after the first #skipUntilAndWith
makeDefineSlotStatementArguments(slotNameValuePos, startIndex, startLine) ==
    IF slotNameValuePos.thrown THEN slotNameValuePos
    ELSE IF str(slotNameValuePos.value) = "main"
    THEN Throw(createSlotDefinitionNamedMainError(slotNameValuePos.position))
    ELSE IF slotNameValuePos.controllChar = <<":">>
    THEN makeDefineSlotStatementNew(
             slotNameValuePos,
             skipUntilAndWith(slotNameValuePos.cur, <<<<")">>>>, FALSE),
             startIndex, startLine)
    ELSE Statement(DefineSlotStatement(
                       PositionRange(startIndex, startLine, slotNameValuePos.cur.index),
                       Expression(slotNameValuePos), <<>>),
                   slotNameValuePos.cur)

makeDefineSlotStatement(c, startIndex, startLine) ==
    makeDefineSlotStatementArguments(
        skipAfter(consume(c, "("), <<<<":">>, <<")">>>>), startIndex, startLine)

\* #makeComponentStatement after this.#parseParams(2)
makeComponentStatementChildren(tagParams, startIndex, startLine) ==
    IF tagParams.thrown THEN tagParams
    ELSE Block("makeComponentStatement", startIndex, startLine,
               [component |-> Expression(tagParams.arguments[1]),
                params |-> Expression(tagParams.arguments[2])],
               {"EndStatement"}, TRUE, tagParams.cur)

makeComponentStatement(c, startIndex, startLine) ==
    makeComponentStatementChildren(parseParams(c, 2), startIndex, startLine)

\* #makeComponentSlotStatement with a params variable
makeComponentSlotStatementChildren(slotNameValuePos, slotParamsVariableValuePos, startIndex, startLine) ==
    IF slotParamsVariableValuePos.thrown THEN slotParamsVariableValuePos
    ELSE Block("makeComponentSlotStatement", startIndex, startLine,
               [slotName |-> Expression(slotNameValuePos),
                paramsVariable |-> <<Expression(slotParamsVariableValuePos)>>],
               {"EndStatement"}, FALSE, slotParamsVariableValuePos.cur)

\* #makeComponentSlotStatement after the first #skipUntilAndWith
makeComponentSlotStatementParams(slotNameValuePos, startIndex, startLine) ==
    IF slotNameValuePos.thrown THEN slotNameValuePos
    ELSE IF slotNameValuePos.controllChar = <<",">>
    THEN makeComponentSlotStatementChildren(
             slotNameValuePos,
             skipUntilAndWith(slotNameValuePos.cur, <<<<")">>>>, FALSE),
             startIndex, startLine)
    ELSE Block("makeComponentSlotStatement", startIndex, startLine,
               [slotName |-> Expression(slotNameValuePos), paramsVariable |-> <<>>],
               {"EndStatement"}, FALSE, slotNameValuePos.cur)

makeComponentSlotStatement(c, startIndex, startLine) ==
    makeComponentSlotStatementParams(
        skipAfter(consume(c, "("), <<<<",">>, <<")">>>>), startIndex, startLine)

\* the cursor after the maximal run of tag characters
RECURSIVE skipTagName(_)
skipTagName(c) ==
    IF currentChar(c) # undefined /\ isValidTagChar(currentChar(c))
    THEN skipTagName(advance(c, 1))
    ELSE c

\* the switch of #makeAtTag; `here` is the range from the @ to the cursor
makeAtTagSwitch(tagName, c, here, allowImport, allowDefineSlot, allowParam, allowSlotStatement) ==
    CASE tagName = "each" -> makeEachStatement(c, here.start, here.lineStart)
      [] tagName = "if" -> makeIfStatement(c, here.start, here.lineStart)
      [] tagName = "elseif" -> makeElseIfStatement(c, here.start, here.lineStart)
      [] tagName = "else" -> makeElseStatement(c, here.start, here.lineStart)
      [] tagName = "let" -> makeLetStatement(c, here.start, here.lineStart)
      [] tagName = "assign" -> makeAssignStatement(c, here.start, here.lineStart)
      [] tagName = "component" ->
             makeComponentStatement(c, here.start, here.lineStart)
      [] tagName = "import" ->
             IF ~allowImport THEN Throw(createInvalidImportSlotsParamsOrder(here))
             ELSE makeImportStatement(c, here.start, here.lineStart)
      [] tagName = "param" ->
             IF ~allowParam THEN Throw(createInvalidImportSlotsParamsOrder(here))
             ELSE makeParamStatement(c, here.start, here.lineStart)
      [] tagName = "defslot" ->
             IF ~allowDefineSlot THEN Throw(createInvalidImportSlotsParamsOrder(here))
             ELSE makeDefineSlotStatement(c, here.start, here.lineStart)
      [] tagName = "slot" ->
             IF ~allowSlotStatement THEN Throw(createSlotOutsideComponenterror(here))
             ELSE makeComponentSlotStatement(c, here.start, here.lineStart)
      [] tagName = "end" -> Statement(EndStatement(here), c)
      [] OTHER -> Throw(createInvalidTagNameError(here))

\* #makeAtTag once the tag name is read, up to the cursor tagNameEnd
makeAtTagNamed(c, tagNameEnd, allowImport, allowDefineSlot, allowParam, allowSlotStatement) ==
    makeAtTagSwitch(str(slice(c.index + 1, tagNameEnd.index)), tagNameEnd,
                    PositionRange(c.index, c.line, tagNameEnd.index),
                    allowImport, allowDefineSlot, allowParam, allowSlotStatement)

makeAtTag(c, allowImport, allowDefineSlot, allowParam, allowSlotStatement) ==
    makeAtTagNamed(c, skipTagName(advance(c, 1)), allowImport, allowDefineSlot,
                   allowParam, allowSlotStatement)

\* a makeAccumilator that hands back the cursor the accumilator started at
makeAccumilatorAtStart(c, value, start) ==
    Statement(TextStatement(PositionRange(start.index, start.line, c.index), value),
              start)

\* makeAccumilator of #parseOnce; `value` and `start` are the accumilator
makeAccumilator(c, value, start) ==
    Statement(TextStatement(PositionRange(start.index, start.line, c.index), value), c)

RECURSIVE parseOnceLoop(_, _, _, _, _, _, _)
RECURSIVE parseOnceAfterComment(_, _, _, _, _, _, _)

\* the while loop of #parseOnce
parseOnceLoop(c, value, start, allowImport, allowDefineSlot, allowParam, allowSlotStatement) ==
    IF isAtEnd(c) THEN makeAccumilator(c, value, start)
    ELSE IF currentChar(c) = "\\" /\ peek(c, 1) = "{" /\ peek(c, 2) = "{"
    THEN parseOnceLoop(advance(c, 3), value, start, allowImport, allowDefineSlot,
                       allowParam, allowSlotStatement)
    ELSE IF \/ currentChar(c) = "{" /\ peek(c, 1) = "{"
            \/ currentChar(c) = "!" /\ peek(c, 1) = "{" /\ peek(c, 1) = "{"
    THEN IF value # <<>> THEN makeAccumilator(c, value, start)
         ELSE IF peek(c, 2) = "-" /\ peek(c, 3) = "-"
         THEN parseOnceAfterComment(skipInlineComment(c), value, start, allowImport,
                                    allowDefineSlot, allowParam, allowSlotStatement)
         ELSE makeInlineTsCodeStatement(c)
    ELSE IF currentChar(c) = "\\" /\ peek(c, 1) = "@"
    THEN parseOnceLoop(advance(c, 2), value, start, allowImport, allowDefineSlot,
                       allowParam, allowSlotStatement)
    ELSE IF currentChar(c) = "@"
    THEN IF value # <<>> THEN makeAccumilator(c, value, start)
         ELSE makeAtTag(c, allowImport, allowDefineSlot, allowParam,
                        allowSlotStatement)
    ELSE parseOnceLoop(advance(c, 1), Append(value, currentChar(c)), start,
                       allowImport, allowDefineSlot, allowParam, allowSlotStatement)

\* the `continue` after this.#skipInlineComment()
parseOnceAfterComment(skipped, value, start, allowImport, allowDefineSlot, allowParam, allowSlotStatement) ==
    IF skipped.thrown THEN skipped
    ELSE parseOnceLoop(skipped.cur, value, start, allowImport, allowDefineSlot,
                       allowParam, allowSlotStatement)

parseOnce(c, allowImport, allowDefineSlot, allowParam, allowSlotStatement) ==
    parseOnceLoop(c, <<>>, c, allowImport, allowDefineSlot, allowParam,
                  allowSlotStatement)

-----------------------------------------------------------------------------
(* What a block statement does once #parseUntilStatment has returned       *)

isComponentSlotStatement(s) == s.class = "ComponentSlotStatement"

\* a filter that keeps every statement
isAnyStatement(s) == TRUE

isNotComponentSlotStatement(s) == ~isComponentSlotStatement(s)

\* a `next` that is the ending statement whatever it is
nextOfAnyEnding(endingStatement) == <<endingStatement>>

\* the `next` of #makeIfStatement and #makeElseIfStatement
nextOf(endingStatement) ==
    IF endingStatement.class = "EndStatement" THEN <<>> ELSE <<endingStatement>>

\* an end that is the cursor whether there is a `next` or not
conditionEndAtCursor(next, c) == c.index

\* next?.position.start || this.#index
conditionEnd(next, c) ==
    IF next # <<>> /\ next[1].position.start # 0 THEN next[1].position.start
    ELSE c.index

returnIfStatement(frame, endingStatement, c) ==
    IfStatement(PositionRange(frame.startIndex, frame.startLine,
                              conditionEnd(nextOf(endingStatement), c)),
                frame.args.expression, frame.statements, nextOf(endingStatement))

returnElseIfStatement(frame, endingStatement, c) ==
    ElseIfStatement(PositionRange(frame.startIndex, frame.startLine,
                                  conditionEnd(nextOf(endingStatement), c)),
                    frame.args.expression, frame.statements, nextOf(endingStatement))

returnElseStatement(frame, c) ==
    ElseStatement(PositionRange(frame.startIndex, frame.startLine, c.index),
                  frame.statements)

returnEachStatement(frame, c) ==
    EachStatement(PositionRange(frame.startIndex, frame.startLine, c.index),
                  frame.args.iterator, frame.args.variable, frame.statements)

returnComponentStatement(frame, c) ==
    LET slots == SelectSeq(frame.statements, isComponentSlotStatement)
        mainSlotChildren == SelectSeq(frame.statements, isNotComponentSlotStatement)
        position == PositionRange(frame.startIndex, frame.startLine, c.index)
    IN  ComponentStatement(position, frame.args.component, frame.args.params,
                           ComponentMainSlotStatement(position, mainSlotChildren),
                           slots)

returnComponentSlotStatement(frame, c) ==
    ComponentSlotStatement(PositionRange(frame.startIndex, frame.startLine, c.index),
                           frame.args.slotName, frame.args.paramsVariable,
                           frame.statements)

\* the statement the function `frame.make` returns
returnBlock(frame, endingStatement, c) ==
    CASE frame.make = "makeEachStatement" -> returnEachStatement(frame, c)
      [] frame.make = "makeIfStatement" -> returnIfStatement(frame, endingStatement, c)
      [] frame.make = "makeElseIfStatement" ->
             returnElseIfStatement(frame, endingStatement, c)
      [] frame.make = "makeElseStatement" -> returnElseStatement(frame, c)
      [] frame.make = "makeComponentStatement" -> returnComponentStatement(frame, c)
      [] frame.make = "makeComponentSlotStatement" ->
             returnComponentSlotStatement(frame, c)

-----------------------------------------------------------------------------
(* parse() and #parseUntilStatment                                         *)

\* a gate for imports that a Param leaves open
areImportStatementsAllowedAfterParam(statementName) ==
    statementName \in {"TextStatement", "ImportStatement", "ParamStatement"}

areImportStatementsAllowedAfter(statementName) ==
    statementName \in {"TextStatement", "ImportStatement"}

areDefineSlotStatementsAllowedAfter(statementName) ==
    statementName \in {"TextStatement", "ImportStatement", "DefineSlotStatement"}

areParamStatementsAllowedAfter(statementName) ==
    statementName \in {"TextStatement", "ParamStatement", "ImportStatement",
                       "DefineSlotStatement"}

cursor == Cursor(index, line)

top == stack[Len(stack)]

\* the #parseOnce call of parse()
parseOnceInParse ==
    parseOnce(cursor, allowImportStatements, allowDefineSlotStatement,
              allowParamStatement, FALSE)

\* a #parseOnce call in a block that hands on the gates of parse()
parseOnceInUntilWithGates(allowSlotStatement) ==
    parseOnce(cursor, allowImportStatements, allowDefineSlotStatement,
              allowParamStatement, allowSlotStatement)

\* a #parseOnce call in a block that allows slots in every block
parseOnceInUntilWithSlots(allowSlotStatement) ==
    parseOnce(cursor, FALSE, FALSE, FALSE, TRUE)

\* the #parseOnce call of #parseUntilStatment
parseOnceInUntil(allowSlotStatement) ==
    parseOnce(cursor, FALSE, FALSE, FALSE, allowSlotStatement)

\* the #parseOnce call of the loop that is running
parsed ==
    IF stack = <<>> THEN parseOnceInParse ELSE parseOnceInUntil(top.allowSlotStatement)

\* the loop that is running calls #parseOnce
CallsParseOnce == status = "running" /\ pending = <<>> /\ ~isAtEnd(cursor)

\* #parseOnce returns the statement r.statement, which needs no block
ReturnsStatement(r) ==
    /\ r.kind = "statement"
    /\ pending' = <<r.statement>>
    /\ index' = r.cur.index
    /\ line' = r.cur.line
    /\ UNCHANGED <<call, code, stack, statements, allowImportStatements,
                   allowDefineSlotStatement, allowParamStatement, status, error>>

ParseOnceStatement == CallsParseOnce /\ ReturnsStatement(parsed)

\* #parseOnce has read the header of a block statement, which calls
\* #parseUntilStatment
OpensBlock(r) ==
    /\ r.kind = "block"
    /\ stack' = Append(stack, r.frame)
    /\ index' = r.cur.index
    /\ line' = r.cur.line
    /\ UNCHANGED <<call, code, pending, statements, allowImportStatements,
                   allowDefineSlotStatement, allowParamStatement, status, error>>

ParseOnceBlock == CallsParseOnce /\ OpensBlock(parsed)

\* #parseOnce throws r.error
Throws(r) ==
    /\ r.kind = "throw"
    /\ status' = "error"
    /\ error' = <<r.error>>
    /\ UNCHANGED <<call, code, index, line, stack, pending, statements,
                   allowImportStatements, allowDefineSlotStatement,
                   allowParamStatement>>

ParseOnceThrow == CallsParseOnce /\ Throws(parsed)

\* #parseUntilStatment: statements.push(statement)
UntilPush ==
    /\ status = "running" /\ pending # <<>> /\ stack # <<>>
    /\ pending[1].name \notin top.statementNames
    /\ stack' = [stack EXCEPT ![Len(stack)].statements = Append(@, pending[1])]
    /\ pending' = <<>>
    /\ UNCHANGED <<call, code, index, line, statements, allowImportStatements,
                   allowDefineSlotStatement, allowParamStatement, status, error>>

\* #parseUntilStatment: return [statements, statement], and the block statement
\* that called it returns to its own caller
UntilReturn ==
    /\ status = "running" /\ pending # <<>> /\ stack # <<>>
    /\ pending[1].name \in top.statementNames
    /\ pending' = <<returnBlock(top, pending[1], cursor)>>
    /\ stack' = SubSeq(stack, 1, Len(stack) - 1)
    /\ UNCHANGED <<call, code, index, line, statements, allowImportStatements,
                   allowDefineSlotStatement, allowParamStatement, status, error>>

\* #parseUntilStatment: the input ends before a terminator
UntilThrow ==
    /\ status = "running" /\ pending = <<>> /\ stack # <<>> /\ isAtEnd(cursor)
    /\ status' = "error"
    /\ error' = <<createUnexpctedError(createPosition(cursor))>>
    /\ UNCHANGED <<call, code, index, line, stack, pending, statements,
                   allowImportStatements, allowDefineSlotStatement,
                   allowParamStatement>>

\* parse(): the three gates after `statement`
GatesAfter(statement) ==
    /\ allowImportStatements' =
           (allowImportStatements /\ areImportStatementsAllowedAfter(statement.name))
    /\ allowDefineSlotStatement' =
           (allowDefineSlotStatement
                /\ areDefineSlotStatementsAllowedAfter(statement.name))
    /\ allowParamStatement' =
           (allowParamStatement /\ areParamStatementsAllowedAfter(statement.name))

\* parse(): statements.push(statement)
ParsePush ==
    /\ status = "running" /\ pending # <<>> /\ stack = <<>>
    /\ GatesAfter(pending[1])
    /\ ~pending[1].hasToBeHandledInParse
    /\ statements' = Append(statements, pending[1])
    /\ pending' = <<>>
    /\ UNCHANGED <<call, code, index, line, stack, status, error>>

\* parse(): throw createDisalowedTagContexError
ParseThrow ==
    /\ status = "running" /\ pending # <<>> /\ stack = <<>>
    /\ GatesAfter(pending[1])
    /\ pending[1].hasToBeHandledInParse
    /\ status' = "error"
    /\ error' = <<createDisalowedTagContexError(pending[1].position)>>
    /\ UNCHANGED <<call, code, index, line, stack, pending, statements>>

\* parse(): return statements
ParseReturn ==
    /\ status = "running" /\ pending = <<>> /\ stack = <<>> /\ isAtEnd(cursor)
    /\ status' = "returned"
    /\ UNCHANGED <<call, code, index, line, stack, pending, statements,
                   allowImportStatements, allowDefineSlotStatement,
                   allowParamStatement, error>>

Next ==
    \/ ParseOnceStatement
    \/ ParseOnceBlock
    \/ ParseOnceThrow
    \/ UntilPush
    \/ UntilReturn
    \/ UntilThrow
    \/ ParsePush
    \/ ParseThrow
    \/ ParseReturn

-----------------------------------------------------------------------------
(* Source texts                                                            *)

\* " a": a text that may follow a tag name
srcText == <<" ", "a">>

\* @if(c)
srcIf == <<"@", "i", "f", "(", "c", ")">>

\* @elseif(d)
srcElseIf == <<"@", "e", "l", "s", "e", "i", "f", "(", "d", ")">>

\* @else
srcElse == <<"@", "e", "l", "s", "e">>

\* @each(v in l)
srcEach == <<"@", "e", "a", "c", "h", "(", "v", " ", "i", "n", " ", "l", ")">>

\* @end
srcEnd == <<"@", "e", "n", "d">>

\* @slot(h)
srcSlot == <<"@", "s", "l", "o", "t", "(", "h", ")">>

\* @import(x)
srcImport == <<"@", "i", "m", "p", "o", "r", "t", "(", "x", ")">>

\* @defslot(s)
srcDefSlot == <<"@", "d", "e", "f", "s", "l", "o", "t", "(", "s", ")">>

\* @param(a:b)
srcParam == <<"@", "p", "a", "r", "a", "m", "(", "a", ":", "b", ")">>

\* @let(x)
srcLet == <<"@", "l", "e", "t", "(", "x", ")">>

\* @component(F, p)
srcComponent ==
    <<"@", "c", "o", "m", "p", "o", "n", "e", "n", "t", "(", "F", ",", " ", "p",
      ")">>


\* @defslot(main)
srcDefSlotMain ==
    <<"@", "d", "e", "f", "s", "l", "o", "t", "(", "m", "a", "i", "n", ")">>

\* @defslot( main : T)
srcDefSlotMainType ==
    <<"@", "d", "e", "f", "s", "l", "o", "t", "(", " ", "m", "a", "i", "n", " ",
      ":", " ", "T", ")">>

\* @slot(h)b@end
srcSlotBlock == <<"@", "s", "l", "o", "t", "(", "h", ")", "b", "@", "e", "n", "d">>

\* @slot(main)
srcSlotMain == <<"@", "s", "l", "o", "t", "(", "m", "a", "i", "n", ")">>

\* \{{
srcEscapedBraces == <<"\\", "{", "{">>

\* \@
srcEscapedAt == <<"\\", "@">>

\* !{x}
srcBangBrace == <<"!", "{", "x", "}">>

\* {{n}}
srcInline == <<"{", "{", "n", "}", "}">>

\* !{{n}}
srcUnsafeInline == <<"!", "{", "{", "n", "}", "}">>

\* {{--c--}}
srcComment == <<"{", "{", "-", "-", "c", "-", "-", "}", "}">>

\* !{{--c--}}
srcUnsafeComment == <<"!", "{", "{", "-", "-", "c", "-", "-", "}", "}">>

\* {{--(--}}
srcCommentParen == <<"{", "{", "-", "-", "(", "-", "-", "}", "}">>

\* a line break
srcNewline == <<"\n">>

\* @
srcAt == <<"@">>

\* @if(
srcIfOpen == <<"@", "i", "f", "(">>

\* @if()
srcIfEmpty == <<"@", "i", "f", "(", ")">>

\* @each(v)
srcEachNoIn == <<"@", "e", "a", "c", "h", "(", "v", ")">>

\* {{n
srcInlineOpen == <<"{", "{", "n">>

RECURSIVE concat(_)
concat(pieces) == IF pieces = <<>> THEN <<>> ELSE Head(pieces) \o concat(Tail(pieces))

\* the texts made of at most n of the pieces
Sources(pieces, n) ==
    {concat(choice) : choice \in UNION {[1..k -> pieces] : k \in 0..n}}

\* new Parser(code, filePath), and the locals of parse() before its loop
InitOn(sources) ==
    /\ code \in sources
    /\ index = 0
    /\ line = 0
    /\ stack = <<>>
    /\ pending = <<>>
    /\ statements = <<>>
    /\ allowImportStatements = TRUE
    /\ allowDefineSlotStatement = TRUE
    /\ allowParamStatement = TRUE
    /\ status = "running"
    /\ error = <<>>
    /\ call = <<>>

\* texts of blocks and conditional chains
MaxPieces == 4

Pieces == {srcText, srcIf, srcElseIf, srcElse, srcEach, srcEnd, srcSlot}

Init == InitOn(Sources(Pieces, MaxPieces))

Spec == Init /\ [][Next]_vars

\* texts of declarations at top level
MaxGatePieces == 4

GatePieces == {srcText, srcImport, srcDefSlot, srcParam, srcLet, srcElse, srcEnd}

InitGate == InitOn(Sources(GatePieces, MaxGatePieces))

SpecGate == InitGate /\ [][Next]_vars

\* texts of declarations and slots inside every kind of block
MaxNestedPieces == 3

NestedPieces ==
    {srcEach, srcIf, srcElseIf, srcElse, srcComponent, srcSlot, srcEnd, srcImport,
     srcDefSlot, srcParam}

InitNested == InitOn(Sources(NestedPieces, MaxNestedPieces))

SpecNested == InitNested /\ [][Next]_vars

\* texts of slot definitions named main
MaxDefSlotPieces == 4

DefSlotPieces ==
    {srcText, srcDefSlot, srcDefSlotMain, srcDefSlotMainType, srcLet, srcElse, srcEnd}

InitDefSlot == InitOn(Sources(DefSlotPieces, MaxDefSlotPieces))

SpecDefSlot == InitDefSlot /\ [][Next]_vars

\* texts of components with slots
MaxComponentPieces == 5

ComponentPieces == {srcText, srcComponent, srcSlotBlock, srcSlotMain, srcElse, srcEnd}

InitComponent == InitOn(Sources(ComponentPieces, MaxComponentPieces))

SpecComponent == InitComponent /\ [][Next]_vars

\* texts with escape sequences
MaxTextPieces == 4

TextPieces ==
    {srcText, srcEscapedBraces, srcEscapedAt, srcImport, srcLet, srcElse, srcEnd}

InitText == InitOn(Sources(TextPieces, MaxTextPieces))

SpecText == InitText /\ [][Next]_vars

\* texts with inline expressions and with ! and { in text
MaxInlinePieces == 4

InlinePieces ==
    {srcText, srcBangBrace, srcInline, srcUnsafeInline, srcEscapedAt, srcElse, srcEnd}

InitInline == InitOn(Sources(InlinePieces, MaxInlinePieces))

SpecInline == InitInline /\ [][Next]_vars

\* texts with comments
MaxCommentPieces == 4

CommentPieces ==
    {srcText, srcComment, srcUnsafeComment, srcCommentParen, srcInline, srcElse,
     srcEnd}

InitComment == InitOn(Sources(CommentPieces, MaxCommentPieces))

SpecComment == InitComment /\ [][Next]_vars

\* texts with directives that are not well formed
MaxErrorPieces == 3

ErrorPieces ==
    {srcText, srcNewline, srcAt, srcIfOpen, srcIfEmpty, srcEachNoIn, srcInlineOpen,
     srcSlot, srcDefSlotMain, srcElse, srcEnd}

InitError == InitOn(Sources(ErrorPieces, MaxErrorPieces))

SpecError == InitError /\ [][Next]_vars

\* texts of several lines
MaxLinePieces == 4

LinePieces == {srcText, srcNewline, srcLet, srcInline, srcIf, srcElse, srcAt, srcEnd}

InitLine == InitOn(Sources(LinePieces, MaxLinePieces))

SpecLine == InitLine /\ [][Next]_vars

\* @component(, p)
srcComponentNoName ==
    <<"@", "c", "o", "m", "p", "o", "n", "e", "n", "t", "(", ",", " ", "p", ")">>

\* @component(F,)
srcComponentNoParams ==
    <<"@", "c", "o", "m", "p", "o", "n", "e", "n", "t", "(", "F", ",", ")">>

\* @let()
srcLetEmpty == <<"@", "l", "e", "t", "(", ")">>

\* texts of directives with empty arguments
MaxArgumentPieces == 4

ArgumentPieces ==
    {srcText, srcComponent, srcComponentNoName, srcComponentNoParams, srcLet,
     srcLetEmpty, srcIfEmpty, srcElse, srcEnd}

InitArgument == InitOn(Sources(ArgumentPieces, MaxArgumentPieces))

SpecArgument == InitArgument /\ [][Next]_vars

\* @if( c ), with a line break and a tab after the bracket
srcIfSpaced == <<"@", "i", "f", "(", "\n", "\t", "c", " ", ")">>

\* {{ n }}
srcInlineSpaced == <<"{", "{", " ", "n", " ", "}", "}">>

\* {{ }}
srcInlineBlank == <<"{", "{", " ", "}", "}">>

\* @let( x = 1 )
srcLetSpaced ==
    <<"@", "l", "e", "t", "(", " ", "x", " ", "=", " ", "1", " ", ")">>

\* @each( v in l )
srcEachSpaced ==
    <<"@", "e", "a", "c", "h", "(", " ", "v", " ", "i", "n", " ", "l", " ", ")">>

\* texts of directives with white space around their arguments
MaxTrimPieces == 3

TrimPieces ==
    {srcText, srcIfSpaced, srcInlineSpaced, srcInlineBlank, srcLetSpaced,
     srcEachSpaced, srcComponent, srcAt, srcElse, srcEnd}

InitTrim == InitOn(Sources(TrimPieces, MaxTrimPieces))

SpecTrim == InitTrim /\ [][Next]_vars

-----------------------------------------------------------------------------
(* TsCode: the structured fragment of a statement and its flattening       *)

\* string.slice(from, to) with 0 <= from
stringSlice(string, from, to) ==
    SubSeq(string, from + 1, IF to > Len(string) THEN Len(string) ELSE to)

\* string.slice(0, -n)
stringSliceEnd(string, n) ==
    IF n = 0 \/ n > Len(string) THEN <<>> ELSE SubSeq(string, 1, Len(string) - n)

TsCodeBuilder(children, literal) ==
    [sourceOffset |-> 0, parentOffset |-> 0, children |-> children, literal |-> literal]

\* a fragment that is marked as mapped whatever it stands for
TsCodeMapped(sourceOffset, shouldBeMapped, builder) ==
    [sourceOffset |-> sourceOffset, parentOffset |-> builder.parentOffset,
     children |-> builder.children, literal |-> builder.literal,
     shouldBeMapped |-> TRUE]

\* new TsCode(sourceOffset, shouldBeMapped, builder)
TsCode(sourceOffset, shouldBeMapped, builder) ==
    [sourceOffset |-> sourceOffset, parentOffset |-> builder.parentOffset,
     children |-> builder.children, literal |-> builder.literal,
     shouldBeMapped |-> shouldBeMapped]

\* a loop in which the literal before a child that gives null is not counted
RECURSIVE builderLoopSkipping(_, _, _, _, _)
builderLoopSkipping(literals, children, i, literalOffsetAbove, childBuilders) ==
    IF ~(i < Len(children)) THEN TsCodeBuilder(childBuilders, concat(literals))
    ELSE IF children[i + 1] = <<>>
    THEN builderLoopSkipping(literals, children, i + 1, literalOffsetAbove,
                             childBuilders)
    ELSE builderLoopSkipping(literals, children, i + 1,
                             literalOffsetAbove + Len(literals[i + 1]),
                             Append(childBuilders,
                                    [children[i + 1][1] EXCEPT
                                         !.parentOffset =
                                             literalOffsetAbove + Len(literals[i + 1])]))

\* the while loop of TsCode.builder; children[i + 1] is what toTsCode() of the
\* child gave, <<>> for null
RECURSIVE builderLoop(_, _, _, _, _)
builderLoop(literals, children, i, literalOffsetAbove, childBuilders) ==
    IF ~(i < Len(children)) THEN TsCodeBuilder(childBuilders, concat(literals))
    ELSE IF children[i + 1] = <<>>
    THEN builderLoop(literals, children, i + 1,
                     literalOffsetAbove + Len(literals[i + 1]), childBuilders)
    ELSE builderLoop(literals, children, i + 1,
                     literalOffsetAbove + Len(literals[i + 1]),
                     Append(childBuilders,
                            [children[i + 1][1] EXCEPT
                                 !.parentOffset =
                                     literalOffsetAbove + Len(literals[i + 1])]))

\* TsCode.builder`...`
builder(literals, children) == builderLoop(literals, children, 0, 0, <<>>)

\* the for loop of TsCodeArray.toTsCode, then the slice and the new TsCode
RECURSIVE TsCodeArrayLoop(_, _, _, _, _)
TsCodeArrayLoop(tsCodes, delimiter, i, children, literal) ==
    IF i > Len(tsCodes)
    THEN TsCode(0, FALSE,
                TsCodeBuilder(children, stringSliceEnd(literal, Len(delimiter))))
    ELSE IF tsCodes[i] = <<>>
    THEN TsCodeArrayLoop(tsCodes, delimiter, i + 1, children, literal)
    ELSE TsCodeArrayLoop(tsCodes, delimiter, i + 1,
                         Append(children,
                                [tsCodes[i][1] EXCEPT !.parentOffset = Len(literal)]),
                         literal \o delimiter)

\* new TsCodeArray(tsCodes, delimiter).toTsCode(), given what toTsCode() of
\* each element gave
TsCodeArray(tsCodes, delimiter) == <<TsCodeArrayLoop(tsCodes, delimiter, 1, <<>>, <<>>)>>

\* TsCodeExpression.toTsCode
expressionToTsCode(expression) ==
    <<TsCode(expression.position.start, TRUE,
             [sourceOffset |-> expression.position.start, parentOffset |-> 0,
              children |-> <<>>, literal |-> expression.value])>>

\* toTsCode of an optional expression that is there
optionToTsCode(option) == expressionToTsCode(option[1])

\* new TsCode(this.position.start, false, TsCode.builder`...`)
statementTsCode(s, literals, children) ==
    <<TsCode(s.position.start, FALSE, builder(literals, children))>>

RECURSIVE toTsCode(_)

\* toTsCode() of every statement of `children`
childrenToTsCode(children) == [k \in 1..Len(children) |-> toTsCode(children[k])]

\* Statement.toTsCode of each class; <<>> is null
toTsCode(s) ==
    CASE s.class \in {"TextStatement", "EndStatement"} -> <<>>
      [] s.class \in {"InlineTsCodeStatement", "InlineSafeTsCodeStatement"} ->
             statementTsCode(s, <<<<"S", "t", "r", "i", "n", "g", "(">>,
                      <<")">>>>,
                             <<expressionToTsCode(s.expression)>>)
      [] s.class = "EachStatement" ->
             statementTsCode(s, <<<<"f", "o", "r", " ", "(", "c", "o", "n", "s", "t", " ">>,
                      <<" ", "o", "f", " ">>,
                      <<")", " ", "{", "\n">>,
                      <<"\n", "}">>>>,
                             <<expressionToTsCode(s.variable),
                               expressionToTsCode(s.iterator),
                               TsCodeArray(childrenToTsCode(s.children), <<"\n">>)>>)
      [] s.class = "IfStatement" /\ s.next # <<>> ->
             statementTsCode(s, <<<<"i", "f", " ", "(">>,
                      <<")", " ", "{", "\n">>,
                      <<"\n", "}", "\n">>,
                      <<>>>>,
                             <<expressionToTsCode(s.expression),
                               TsCodeArray(childrenToTsCode(s.children), <<"\n">>),
                               toTsCode(s.next[1])>>)
      [] s.class = "IfStatement" /\ s.next = <<>> ->
             statementTsCode(s, <<<<"i", "f", " ", "(">>,
                      <<")", " ", "{", "\n">>,
                      <<"\n", "}">>>>,
                             <<expressionToTsCode(s.expression),
                               TsCodeArray(childrenToTsCode(s.children), <<"\n">>)>>)
      [] s.class = "ElseIfStatement" /\ s.next # <<>> ->
             statementTsCode(s, <<<<"e", "l", "s", "e", " ", "i", "f", " ", "(">>,
                      <<")", " ", "{", "\n">>,
                      <<"\n", "}", "\n">>,
                      <<>>>>,
                             <<expressionToTsCode(s.expression),
                               TsCodeArray(childrenToTsCode(s.children), <<"\n">>),
                               toTsCode(s.next[1])>>)
      [] s.class = "ElseIfStatement" /\ s.next = <<>> ->
             statementTsCode(s, <<<<"e", "l", "s", "e", " ", "i", "f", " ", "(">>,
                      <<")", " ", "{", "\n">>,
                      <<"\n", "}">>>>,
                             <<expressionToTsCode(s.expression),
                               TsCodeArray(childrenToTsCode(s.children), <<"\n">>)>>)
      [] s.class = "ElseStatement" ->
             statementTsCode(s, <<<<"e", "l", "s", "e", " ", "{", "\n">>,
                      <<"\n", "}">>>>,
                             <<TsCodeArray(childrenToTsCode(s.children), <<"\n">>)>>)
      [] s.class = "LetStatement" /\ s.value # <<>> ->
             statementTsCode(s, <<<<"l", "e", "t", " ">>,
                      <<" ", "=", " ">>,
                      <<>>>>,
                             <<expressionToTsCode(s.variableName),
                               optionToTsCode(s.value)>>)
      [] s.class = "LetStatement" /\ s.value = <<>> ->
             statementTsCode(s, <<<<"l", "e", "t", " ">>,
                      <<>>>>,
                             <<expressionToTsCode(s.variableName)>>)
      [] s.class = "AssignStatement" ->
             statementTsCode(s, <<<<>>,
                      <<" ", "=", " ">>,
                      <<>>>>,
                             <<expressionToTsCode(s.variableName),
                               expressionToTsCode(s.value)>>)
      [] s.class = "ParamStatement" /\ s.defaultValue # <<>> ->
             statementTsCode(s, <<<<"c", "o", "n", "s", "t", " ">>,
                      <<":", " ">>,
                      <<" ", "=", " ">>,
                      <<>>>>,
                             <<expressionToTsCode(s.paramName),
                               expressionToTsCode(s.type),
                               optionToTsCode(s.defaultValue)>>)
      [] s.class = "ParamStatement" /\ s.defaultValue = <<>> ->
             statementTsCode(s, <<<<"d", "e", "c", "l", "a", "r", "e", " ", "c", "o", "n", "s", "t", " ">>,
                      <<":", " ">>,
                      <<>>>>,
                             <<expressionToTsCode(s.paramName),
                               expressionToTsCode(s.type)>>)
      [] s.class = "ImportStatement" ->
             statementTsCode(s, <<<<"i", "m", "p", "o", "r", "t", " ">>,
                      <<>>>>,
                             <<expressionToTsCode(s.expression)>>)
      [] s.class = "DefineSlotStatement" /\ s.slotArguments # <<>> ->
             statementTsCode(s, <<<<"i", "n", "t", "e", "r", "f", "a", "c", "e", " ", "$", "S", "l", "o", "t", "s", " ", "{", "\n">>,
                      <<":", " ">>,
                      <<"\n", "}">>>>,
                             <<expressionToTsCode(s.slotName),
                               optionToTsCode(s.slotArguments)>>)
      [] s.class = "DefineSlotStatement" /\ s.slotArguments = <<>> ->
             statementTsCode(s, <<<<"i", "n", "t", "e", "r", "f", "a", "c", "e", " ", "$", "S", "l", "o", "t", "s", " ", "{", "\n">>,
                      <<":", " ", "{", "}", "\n", "}">>>>,
                             <<expressionToTsCode(s.slotName)>>)
      [] s.class = "ComponentStatement" ->
             statementTsCode(s, <<<<"a", "w", "a", "i", "t", " ">>,
                      <<".", "$", "r", "e", "n", "d", "e", "r", "(">>,
                      <<",", " ", "{", "\n">>,
                      <<",", " ", "\n">>,
                      <<"\n", "}", ")">>>>,
                             <<expressionToTsCode(s.component),
                               expressionToTsCode(s.params),
                               toTsCode(s.mainSlot),
                               TsCodeArray(childrenToTsCode(s.slots),
                                           <<",", " ", "\n">>)>>)
      [] s.class = "ComponentMainSlotStatement" ->
             statementTsCode(s, <<<<"m", "a", "i", "n", ":", " ", "a", "s", "y", "n", "c", " ", "(", ")", " ", "=", ">", " ", "{", "\n">>,
                      <<"\n", "\t", "r", "e", "t", "u", "r", "n", " ", "\"", "\"", "\n", "}">>>>,
                             <<TsCodeArray(childrenToTsCode(s.children), <<"\n">>)>>)
      [] s.class = "ComponentSlotStatement" /\ s.paramsVariable # <<>> ->
             statementTsCode(s, <<<<>>,
                      <<":", " ", "a", "s", "y", "n", "c", " ", "(">>,
                      <<")", " ", "=", ">", " ", "{", "\n">>,
                      <<"\n", "\t", "r", "e", "t", "u", "r", "n", " ", "\"", "\"", "\n", "}">>>>,
                             <<expressionToTsCode(s.slotName),
                               optionToTsCode(s.paramsVariable),
                               TsCodeArray(childrenToTsCode(s.children), <<"\n">>)>>)
      [] s.class = "ComponentSlotStatement" /\ s.paramsVariable = <<>> ->
             statementTsCode(s, <<<<>>,
                      <<":", " ", "a", "s", "y", "n", "c", " ", "(", ")", " ", "=", ">", " ", "{", "\n">>,
                      <<"\n", "\t", "r", "e", "t", "u", "r", "n", " ", "\"", "\"", "\n", "}">>>>,
                             <<expressionToTsCode(s.slotName),
                               TsCodeArray(childrenToTsCode(s.children), <<"\n">>)>>)

MapItem(sourceOffset, generatedOffset, length) ==
    [sourceOffset |-> sourceOffset, generatedOffset |-> generatedOffset,
     length |-> length]

\* child maps pushed with the offsets they have in the child's own text
notRebased(childMaps, generatedCodeLength) == childMaps

\* maps.push({...childMap, generatedOffset: generatedCode.length + ...})
rebased(childMaps, generatedCodeLength) ==
    [k \in 1..Len(childMaps) |->
         MapItem(childMaps[k].sourceOffset,
                 generatedCodeLength + childMaps[k].generatedOffset,
                 childMaps[k].length)]

\* maps.push of the child itself, if it should be mapped
ownMap(child, generatedCodeLength, childAsString) ==
    IF child.shouldBeMapped
    THEN <<MapItem(child.sourceOffset, generatedCodeLength, Len(childAsString))>>
    ELSE <<>>

RECURSIVE toMappedString(_)
RECURSIVE toMappedStringLoop(_, _, _, _, _)

\* the body of the for loop of toMappedString after child.toMappedString()
toMappedStringChild(tsCode, i, generatedCode, maps, childMapped) ==
    toMappedStringLoop(
        tsCode, i + 1, generatedCode \o childMapped.string,
        maps \o ownMap(tsCode.children[i], Len(generatedCode), childMapped.string)
             \o rebased(childMapped.maps, Len(generatedCode)),
        tsCode.children[i].parentOffset)

\* the for loop of toMappedString over the children from the i-th on
toMappedStringLoop(tsCode, i, generatedCode, maps, lastLiteralIndex) ==
    IF i > Len(tsCode.children)
    THEN [maps |-> maps,
          string |-> generatedCode
                         \o stringSlice(tsCode.literal, lastLiteralIndex,
                                        Len(tsCode.literal))]
    ELSE toMappedStringChild(
             tsCode, i,
             generatedCode \o stringSlice(tsCode.literal, lastLiteralIndex,
                                          tsCode.children[i].parentOffset),
             maps, toMappedString(tsCode.children[i]))

\* TsCode.toMappedString: [maps, generatedCode]
toMappedString(tsCode) == toMappedStringLoop(tsCode, 1, <<>>, <<>>, 0)

\* statements[i].toTsCode()?.toMappedString() on what parse() returned
ToMappedString ==
    /\ status = "returned" /\ call = <<>>
    /\ \E i \in 1..Len(statements) :
           /\ toTsCode(statements[i]) # <<>>
           /\ call' = <<[op |-> "toMappedString", statement |-> statements[i],
                         result |-> toMappedString(toTsCode(statements[i])[1])]>>
    /\ UNCHANGED <<code, index, line, stack, pending, statements,
                   allowImportStatements, allowDefineSlotStatement,
                   allowParamStatement, status, error>>

NextMapped == Next \/ ToMappedString

\* @slot(h){{n}}@end
srcSlotInline ==
    <<"@", "s", "l", "o", "t", "(", "h", ")", "{", "{", "n", "}", "}", "@", "e", "n", "d">>

\* texts whose statements have expressions at several depths
MaxMappedPieces == 4

MappedPieces ==
    {srcText, srcInline, srcIf, srcElse, srcLet, srcComponent, srcSlotInline, srcEnd}

InitMapped == InitOn(Sources(MappedPieces, MaxMappedPieces))

SpecMapped == InitMapped /\ [][NextMapped]_vars

-----------------------------------------------------------------------------
(* TsCode.builder on its own                                               *)

\* new TsCode(0, false, TsCode.builder(literals, ...children)).toMappedString()
BuildAndFlatten ==
    /\ call # <<>> /\ call[1].op = "builder" /\ ~call[1].returned
    /\ call' = <<[call[1] EXCEPT
                      !.built = <<builder(call[1].literals, call[1].children)>>,
                      !.result =
                          <<toMappedString(
                                TsCode(0, FALSE,
                                       builder(call[1].literals, call[1].children)))>>,
                      !.returned = TRUE]>>
    /\ UNCHANGED <<code, index, line, stack, pending, statements,
                   allowImportStatements, allowDefineSlotStatement,
                   allowParamStatement, status, error>>

NextBuilder == BuildAndFlatten

\* the literal pieces and the children the builder is called with
MaxChildren == 3

LiteralPieces == {<<>>, <<"a">>, <<"b", "c">>}

leafChild == expressionToTsCode(TsCodeExpression(PositionRange(3, 0, 4), <<"n">>))

emptyChild == expressionToTsCode(TsCodeExpression(PositionRange(5, 0, 5), <<>>))

nestedChild ==
    <<TsCode(7, FALSE, builder(<<<<"i", "f">>, <<";">>>>, <<leafChild>>))>>

arrayChild == TsCodeArray(<<leafChild, <<>>, leafChild>>, <<"\n">>)

ChildCandidates == {<<>>, leafChild, emptyChild, nestedChild, arrayChild}

\* no parse() runs; the builder is about to be called
InitBuilder ==
    /\ code = <<>>
    /\ index = 0
    /\ line = 0
    /\ stack = <<>>
    /\ pending = <<>>
    /\ statements = <<>>
    /\ allowImportStatements = TRUE
    /\ allowDefineSlotStatement = TRUE
    /\ allowParamStatement = TRUE
    /\ status = "idle"
    /\ error = <<>>
    /\ \E n \in 0..MaxChildren :
           call \in {<<[op |-> "builder", literals |-> literals,
                        children |-> children, built |-> <<>>, result |-> <<>>,
                        returned |-> FALSE]>> :
                         literals \in [1..(n + 1) -> LiteralPieces],
                         children \in [1..n -> ChildCandidates]}

SpecBuilder == InitBuilder /\ [][NextBuilder]_vars

-----------------------------------------------------------------------------
(* Parser.paramsToCodeString                                               *)

\* ParamStatement.toDeclarationFileCode
toDeclarationFileCode(s) ==
    toMappedString(expressionToTsCode(s.paramName)[1]).string
        \o <<":", " ">>
        \o toMappedString(expressionToTsCode(s.type)[1]).string

\* the first loop of paramsToCodeString, from statement i on
RECURSIVE paramsToCodeStringLoop(_, _, _, _)
paramsToCodeStringLoop(list, i, imports, params) ==
    IF i > Len(list) THEN [imports |-> imports, params |-> params]
    ELSE IF ~areParamStatementsAllowedAfter(list[i].name)
    THEN [imports |-> imports, params |-> params]
    ELSE IF list[i].class = "ImportStatement"
    THEN paramsToCodeStringLoop(list, i + 1, Append(imports, list[i]), params)
    ELSE IF list[i].class = "ParamStatement"
    THEN paramsToCodeStringLoop(list, i + 1, imports, Append(params, list[i]))
    ELSE paramsToCodeStringLoop(list, i + 1, imports, params)

\* the loop over imports: code += `\n${...toTsCode().toMappedString()[1]}`
RECURSIVE importsToCodeString(_)
importsToCodeString(imports) ==
    IF imports = <<>> THEN <<>>
    ELSE <<"\n">> \o toMappedString(toTsCode(Head(imports))[1]).string
             \o importsToCodeString(Tail(imports))

\* the loop over params: code += `\t${param.toDeclarationFileCode()}\n`
RECURSIVE paramsToDeclarations(_)
paramsToDeclarations(params) ==
    IF params = <<>> THEN <<>>
    ELSE <<"\t">> \o toDeclarationFileCode(Head(params)) \o <<"\n">>
             \o paramsToDeclarations(Tail(params))

autogeneratedComment ==
    <<"/", "/", " ", "A", "u", "t", "o", "g", "e", "n", "e", "r", "a", "t",
      "e", "d", " ", "c", "o", "d", "e", " ", "b", "y", " ", "t", "y", "p",
      "e", "s", "c", "r", "i", "p", "t", " ", "t", "e", "m", "p", "l", "a",
      "t", "i", "n", "g", " ", "e", "n", "g", "i", "n", "e", "\n">>

exportInterface ==
    <<"\n", "e", "x", "p", "o", "r", "t", " ", "i", "n", "t", "e", "r", "f",
      "a", "c", "e", " ", "P", "a", "r", "a", "m", "s", " ", "{", "\n">>

\* paramsToCodeString once the two lists are filled
paramsToCodeStringOf(found) ==
    autogeneratedComment
        \o importsToCodeString(found.imports)
        \o (IF Len(found.imports) # 0 THEN <<"\n">> ELSE <<>>)
        \o exportInterface
        \o paramsToDeclarations(found.params)
        \o <<"}">>

paramsToCodeString(list) ==
    paramsToCodeStringOf(paramsToCodeStringLoop(list, 1, <<>>, <<>>))

\* parser.paramsToCodeString(parser.parse())
ParamsToCodeString ==
    /\ status = "returned" /\ call = <<>>
    /\ call' = <<[op |-> "paramsToCodeString", statements |-> statements,
                  result |-> paramsToCodeString(statements)]>>
    /\ UNCHANGED <<code, index, line, stack, pending, statements,
                   allowImportStatements, allowDefineSlotStatement,
                   allowParamStatement, status, error>>

NextParams == Next \/ ParamsToCodeString

\* @param(c:d=1)
srcParamDefault ==
    <<"@", "p", "a", "r", "a", "m", "(", "c", ":", "d", "=", "1", ")">>

MaxParamPieces == 4

ParamPieces ==
    {srcText, srcImport, srcParam, srcParamDefault, srcDefSlot, srcLet, srcElse, srcEnd}

InitParams == InitOn(Sources(ParamPieces, MaxParamPieces))

SpecParams == InitParams /\ [][NextParams]_vars

-----------------------------------------------------------------------------
(* #skipUntilAndWith on its own                                            *)

\* this.#skipUntilAndWith(untilChars, true) with the cursor where it stands
SkipUntilAndWith ==
    /\ call # <<>> /\ call[1].op = "skipUntilAndWith" /\ ~call[1].returned
    /\ call' = <<[call[1] EXCEPT
                      !.result = <<skipUntilAndWith(cursor, call[1].untilChars, TRUE)>>,
                      !.returned = TRUE]>>
    /\ index' = IF skipUntilAndWith(cursor, call[1].untilChars, TRUE).thrown THEN index
                ELSE skipUntilAndWith(cursor, call[1].untilChars, TRUE).cur.index
    /\ line' = IF skipUntilAndWith(cursor, call[1].untilChars, TRUE).thrown THEN line
               ELSE skipUntilAndWith(cursor, call[1].untilChars, TRUE).cur.line
    /\ UNCHANGED <<code, stack, pending, statements, allowImportStatements,
                   allowDefineSlotStatement, allowParamStatement, status, error>>

NextScan == SkipUntilAndWith

\* the texts the scan runs on, and the terminators it looks for
MaxScanLength == 5

ScanChars == {"a", "(", ")", "[", "]", ","}

ScanTexts == UNION {[1..k -> ScanChars] : k \in 0..MaxScanLength}

ScanTerminators == {<<<<")">>>>, <<<<",">>, <<")">>>>}

\* no parse() runs; the scan is about to start at offset 0
InitScan ==
    /\ code \in ScanTexts
    /\ index = 0
    /\ line = 0
    /\ stack = <<>>
    /\ pending = <<>>
    /\ statements = <<>>
    /\ allowImportStatements = TRUE
    /\ allowDefineSlotStatement = TRUE
    /\ allowParamStatement = TRUE
    /\ status = "idle"
    /\ error = <<>>
    /\ call \in {<<[op |-> "skipUntilAndWith", untilChars |-> untilChars,
                    result |-> <<>>, returned |-> FALSE]>> :
                     untilChars \in ScanTerminators}

SpecScan == InitScan /\ [][NextScan]_vars

-----------------------------------------------------------------------------
(* safeString                                                              *)

\* value.replaceAll(search, replacement) for a search text of one character
RECURSIVE replaceAll(_, _, _)
replaceAll(value, search, replacement) ==
    IF value = <<>> THEN <<>>
    ELSE IF Head(value) = search
    THEN replacement \o replaceAll(Tail(value), search, replacement)
    ELSE <<Head(value)>> \o replaceAll(Tail(value), search, replacement)

\* an escaping that leaves the backslashes of the value as they are
safeStringKeepingBackslash(value) ==
    replaceAll(replaceAll(value, "\"", <<"\\", "\"">>), "\n", <<"\\", "n">>)

safeString(value) ==
    replaceAll(replaceAll(replaceAll(value, "\\", <<"\\", "\\">>),
                          "\"", <<"\\", "\"">>),
               "\n", <<"\\", "n">>)

\* safeString(value) called on its own
SafeString ==
    /\ call # <<>> /\ call[1].op = "safeString" /\ ~call[1].returned
    /\ call' = <<[call[1] EXCEPT !.result = safeString(call[1].value),
                                 !.returned = TRUE]>>
    /\ UNCHANGED <<code, index, line, stack, pending, statements,
                   allowImportStatements, allowDefineSlotStatement,
                   allowParamStatement, status, error>>

NextSafeString == SafeString

\* the strings safeString is called on
MaxValueLength == 4

ValueChars == {"a", "n", "\\", "\"", "\n"}

Values == UNION {[1..k -> ValueChars] : k \in 0..MaxValueLength}

\* no parser runs; a call of safeString(value) is about to be made
InitSafeString ==
    /\ code = <<>>
    /\ index = 0
    /\ line = 0
    /\ stack = <<>>
    /\ pending = <<>>
    /\ statements = <<>>
    /\ allowImportStatements = TRUE
    /\ allowDefineSlotStatement = TRUE
    /\ allowParamStatement = TRUE
    /\ status = "idle"
    /\ error = <<>>
    /\ call \in {<<[op |-> "safeString", value |-> value, result |-> <<>>,
                    returned |-> FALSE]>> : value \in Values}

SpecSafeString == InitSafeString /\ [][NextSafeString]_vars

-----------------------------------------------------------------------------
(* Statement.toCompiledString                                              *)

Digits == <<"0", "1", "2", "3", "4", "5", "6", "7", "8", "9">>

\* `${n}` for a number n >= 0
RECURSIVE numberToString(_)
numberToString(n) ==
    IF n < 10 THEN <<Digits[n + 1]>>
    ELSE numberToString(n \div 10) \o <<Digits[(n % 10) + 1]>>

setCompiledStringLine(lineNumber, compiledString) ==
    <<"$", "l", "i", "n", "e", " ", "=",
        " ">> \o numberToString(lineNumber + 1) \o <<"\n", "\t">> \o compiledString

RECURSIVE toCompiledString(_)

\* the for loop of childrenToCompiledString from child i on
RECURSIVE childrenToCompiledStringLoop(_, _)
childrenToCompiledStringLoop(children, i) ==
    IF i > Len(children) THEN <<>>
    ELSE toCompiledString(children[i]) \o <<"\n">>
             \o childrenToCompiledStringLoop(children, i + 1)

childrenToCompiledString(children) ==
    <<"\n">> \o childrenToCompiledStringLoop(children, 1)

\* `${this.#next ? `\n${this.#next.toCompiledString()}` : ""}`
nextToCompiledString(next) ==
    IF next # <<>> THEN <<"\n">> \o toCompiledString(next[1]) ELSE <<>>

\* Statement.toCompiledString of each class
toCompiledString(s) ==
    CASE s.class = "TextStatement" ->
             <<"o", "u", "t", " ", "+", "=",
                 " ">> \o <<"\"">> \o safeString(s.value) \o <<"\"">>
      [] s.class = "InlineTsCodeStatement" ->
             setCompiledStringLine(s.position.lineStart,
                 <<"o", "u", "t", " ", "+", "=", " ", "S", "t", "r", "i", "n", "g",
                     "(">> \o s.expression.value \o <<")">>)
      [] s.class = "InlineSafeTsCodeStatement" ->
             <<"o", "u", "t", " ", "+", "=", " ", "$", "a", "p", "i", ".", "s", "a",
                 "f", "e", "S", "t", "r", "i", "n", "g", "(", "S", "t", "r", "i",
                     "n", "g", "(">> \o s.expression.value \o <<")", ")">>
      [] s.class = "EachStatement" ->
             setCompiledStringLine(s.position.lineStart,
                 <<"f", "o", "r", " ", "(", "c", "o", "n", "s", "t",
                     " ">> \o s.variable.value \o <<" ", "o", "f",
                         " ">> \o s.iterator.value
                     \o <<")", " ", "{">> \o childrenToCompiledString(s.children)
                     \o <<"}">>)
      [] s.class = "IfStatement" ->
             setCompiledStringLine(s.position.lineStart,
                 <<"i", "f", " ", "(">> \o s.expression.value \o <<")", " ", "{">>
                     \o childrenToCompiledString(s.children) \o <<"}">>
                     \o nextToCompiledString(s.next))
      [] s.class = "ElseIfStatement" ->
             setCompiledStringLine(s.position.lineStart,
                 <<"e", "l", "s", "e", "i", "f", " ",
                     "(">> \o s.expression.value \o <<")", " ", "{">>
                     \o childrenToCompiledString(s.children) \o <<"}">>
                     \o nextToCompiledString(s.next))
      [] s.class = "ElseStatement" ->
             setCompiledStringLine(s.position.lineStart,
                 <<"e", "l", "s", "e", " ",
                     "{">> \o childrenToCompiledString(s.children) \o <<"}">>)
      [] s.class = "LetStatement" ->
             setCompiledStringLine(s.position.lineStart,
                 <<"l", "e", "t", " ">> \o s.variableName.value
                     \o (IF s.value # <<>> THEN <<" ", "=", " ">> \o s.value[1].value
                         ELSE <<>>))
      [] s.class = "AssignStatement" ->
             setCompiledStringLine(s.position.lineStart,
                 s.variableName.value \o <<" ", "=", " ">> \o s.value.value)
      [] s.class = "ComponentStatement" ->
             <<"o", "u", "t", " ", "+", "=", " ", "a", "w", "a", "i", "t", " ", "$",
                 "a", "p", "i", ".", "r", "e", "n", "d", "e", "r", "C", "o", "m",
                     "p", "o", "n", "e", "n", "t",
                         "(">> \o s.component.value \o <<",", " ">> \o s.params.value
                 \o <<",", " ", "{", "\n">> \o toCompiledString(s.mainSlot)
                 \o childrenToCompiledString(s.slots) \o <<"}", ")", "\n">>
      [] s.class = "ComponentMainSlotStatement" ->
             <<"m", "a", "i", "n", ":", " ", "a", "s", "y", "n", "c", " ", "(", ")",
                 " ", "=", ">", " ", "{", "\n", "\t", "l", "e", "t", " ", "o", "u",
                     "t", " ", "=", " ", "\"",
                         "\"">> \o childrenToCompiledString(s.children) \o <<"r",
                             "e", "t", "u", "r", "n", " ", "o", "u", "t", "\n", "}", ",", " ">>
      [] s.class = "ComponentSlotStatement" ->
             s.slotName.value \o <<":", " ", "a", "s", "y", "n", "c", " ", "(">>
                 \o (IF s.paramsVariable # <<>> THEN s.paramsVariable[1].value
                     ELSE <<>>)
                 \o <<")", " ", "=", ">", " ", "{", "\n", "\t", "l", "e", "t", " ",
                     "o", "u", "t", " ", "=", " ", "\"",
                         "\"">> \o childrenToCompiledString(s.children) \o <<"r",
                             "e", "t", "u", "r", "n", " ", "o", "u", "t", "\n", "}", ",", " ">>
      [] OTHER -> <<>>

\* statements[i].toCompiledString() on what parse() returned
ToCompiledString ==
    /\ status = "returned" /\ call = <<>>
    /\ \E i \in 1..Len(statements) :
           call' = <<[op |-> "toCompiledString", statement |-> statements[i],
                      result |-> toCompiledString(statements[i])]>>
    /\ UNCHANGED <<code, index, line, stack, pending, statements,
                   allowImportStatements, allowDefineSlotStatement,
                   allowParamStatement, status, error>>

NextCompiled == Next \/ ToCompiledString

\* texts of conditional chains
MaxCompiledPieces == 4

CompiledPieces == {srcText, srcInline, srcIf, srcElseIf, srcElse, srcEach, srcAt, srcEnd}

InitCompiled == InitOn(Sources(CompiledPieces, MaxCompiledPieces))

SpecCompiled == InitCompiled /\ [][NextCompiled]_vars

-----------------------------------------------------------------------------
(* Statement.toObject                                                      *)

\* option?.toString(): <<>> for undefined, else the string in a tuple
optionToString(option) == IF option = <<>> THEN <<>> ELSE <<option[1].value>>

RECURSIVE toObject(_)

\* children.map((child) => child.toObject()).filter((child) => child !== null),
\* from child i on
RECURSIVE childrenToObjectLoop(_, _)
childrenToObjectLoop(children, i) ==
    IF i > Len(children) THEN <<>>
    ELSE toObject(children[i]) \o childrenToObjectLoop(children, i + 1)

childrenToObject(children) == childrenToObjectLoop(children, 1)

\* this.#next?.toObject() || undefined
nextToObject(next) == IF next = <<>> THEN <<>> ELSE toObject(next[1])

\* Statement.toObject of each class; <<>> is null, else the object in a tuple
toObject(s) ==
    CASE s.class = "TextStatement" -> <<[type |-> "TextStatement", value |-> s.value]>>
      [] s.class \in {"InlineTsCodeStatement", "InlineSafeTsCodeStatement",
                      "ImportStatement"} ->
             <<[type |-> s.class, expression |-> s.expression.value]>>
      [] s.class = "EachStatement" ->
             <<[type |-> "EachStatement", variable |-> s.variable.value,
                iterator |-> s.variable.value,
                children |-> childrenToObject(s.children)]>>
      [] s.class = "EndStatement" -> <<>>
      [] s.class \in {"IfStatement", "ElseIfStatement"} ->
             <<[type |-> s.class, expression |-> s.expression.value,
                children |-> childrenToObject(s.children),
                next |-> nextToObject(s.next)]>>
      [] s.class = "ElseStatement" ->
             <<[type |-> "ElseStatement", children |-> childrenToObject(s.children)]>>
      [] s.class = "LetStatement" ->
             <<[type |-> "LetStatement", variableName |-> s.variableName.value,
                variableValue |-> optionToString(s.value)]>>
      [] s.class = "AssignStatement" ->
             <<[type |-> "AssignStatement", variableName |-> s.variableName.value,
                variableValue |-> s.value.value]>>
      [] s.class = "ParamStatement" ->
             <<[type |-> "ParamStatement", paramName |-> s.paramName.value,
                paramType |-> s.type.value,
                paramDefaultValue |-> optionToString(s.defaultValue)]>>
      [] s.class = "DefineSlotStatement" ->
             <<[type |-> "DefineSlotStatement", slotName |-> s.slotName.value,
                slotArguments |-> optionToString(s.slotArguments)]>>
      [] s.class = "ComponentStatement" ->
             <<[type |-> "ComponentStatement", component |-> s.component.value,
                params |-> s.params.value, mainSlot |-> toObject(s.mainSlot)[1],
                slots |-> childrenToObject(s.slots)]>>
      [] s.class = "ComponentMainSlotStatement" ->
             <<[type |-> "ComponentMainSlotStatement",
                children |-> childrenToObject(s.children)]>>
      [] s.class = "ComponentSlotStatement" ->
             <<[type |-> "ComponentSlotStatement", slotName |-> s.slotName.value,
                paramsVariable |-> optionToString(s.paramsVariable),
                children |-> childrenToObject(s.children)]>>

\* statements[i].toObject() on what parse() returned
ToObject ==
    /\ status = "returned" /\ call = <<>>
    /\ \E i \in 1..Len(statements) :
           call' = <<[op |-> "toObject", statement |-> statements[i],
                      result |-> toObject(statements[i])]>>
    /\ UNCHANGED <<code, index, line, stack, pending, statements,
                   allowImportStatements, allowDefineSlotStatement,
                   allowParamStatement, status, error>>

NextObject == Next \/ ToObject

\* @assign(x=1)
srcAssign == <<"@", "a", "s", "s", "i", "g", "n", "(", "x", "=", "1", ")">>

\* texts of loops, bindings and conditions
MaxObjectPieces == 4

ObjectPieces ==
    {srcText, srcInline, srcEach, srcLet, srcAssign, srcIf, srcElse, srcAt, srcEnd}

InitObject == InitOn(Sources(ObjectPieces, MaxObjectPieces))

SpecObject == InitObject /\ [][NextObject]_vars

-----------------------------------------------------------------------------
(* PositionRange.copy                                                      *)

\* new PositionRange(start, lineStart) with `end` left out: end ?? start + 1
PositionRangeOfOne(start, lineStart) == PositionRange(start, lineStart, start + 1)

\* PositionRange.copy: new PositionRange(this.start, this.end)
copy(position) == PositionRangeOfOne(position.start, position.end)

\* PositionRange.length
length(position) == position.end - position.start

\* position.copy() called on its own
Copy ==
    /\ call # <<>> /\ call[1].op = "copy" /\ ~call[1].returned
    /\ call' = <<[call[1] EXCEPT !.result = <<copy(call[1].position)>>,
                                 !.returned = TRUE]>>
    /\ UNCHANGED <<code, index, line, stack, pending, statements,
                   allowImportStatements, allowDefineSlotStatement,
                   allowParamStatement, status, error>>

NextCopy == Copy

\* the ranges copy() is called on
MaxOffset == 8

MaxLineStart == 3

Ranges ==
    {PositionRange(start, lineStart, end) :
         start \in 0..MaxOffset, lineStart \in 0..MaxLineStart, end \in 0..MaxOffset}

\* no parse() runs; a range with end >= start is about to be copied
InitCopy ==
    /\ code = <<>>
    /\ index = 0
    /\ line = 0
    /\ stack = <<>>
    /\ pending = <<>>
    /\ statements = <<>>
    /\ allowImportStatements = TRUE
    /\ allowDefineSlotStatement = TRUE
    /\ allowParamStatement = TRUE
    /\ status = "idle"
    /\ error = <<>>
    /\ call \in {<<[op |-> "copy", position |-> position, result |-> <<>>,
                    returned |-> FALSE]>> :
                     position \in {r \in Ranges : r.end >= r.start}}

SpecCopy == InitCopy /\ [][NextCopy]_vars

-----------------------------------------------------------------------------
(* The statements of a state, for the properties                           *)

ChildrenClasses ==
    {"EachStatement", "ElseStatement", "ComponentMainSlotStatement",
     "ComponentSlotStatement"}

ConditionClasses == {"IfStatement", "ElseIfStatement"}

Link(parent, role, child) == [parent |-> parent, role |-> role, child |-> child]

RECURSIVE linksBelow(_)
RECURSIVE linksOf(_, _, _)

\* one link for every statement of `list`, held by `parent` in its field `role`,
\* and for every statement below it
linksOf(parent, role, list) ==
    IF list = <<>> THEN <<>>
    ELSE <<Link(parent, role, Head(list))>> \o linksBelow(Head(list))
             \o linksOf(parent, role, Tail(list))

linksBelow(s) ==
    CASE s.class \in ChildrenClasses -> linksOf(s.class, "children", s.children)
      [] s.class \in ConditionClasses ->
             linksOf(s.class, "children", s.children) \o linksOf(s.class, "next", s.next)
      [] s.class = "ComponentStatement" ->
             linksOf(s.class, "mainSlot", <<s.mainSlot>>)
                 \o linksOf(s.class, "slots", s.slots)
      [] OTHER -> <<>>

\* the class of the statement the function `make` builds
classOf(make) ==
    CASE make = "makeEachStatement" -> "EachStatement"
      [] make = "makeIfStatement" -> "IfStatement"
      [] make = "makeElseIfStatement" -> "ElseIfStatement"
      [] make = "makeElseStatement" -> "ElseStatement"
      [] make = "makeComponentStatement" -> "ComponentStatement"
      [] make = "makeComponentSlotStatement" -> "ComponentSlotStatement"

RECURSIVE linksOfFrames(_)
linksOfFrames(frames) ==
    IF frames = <<>> THEN <<>>
    ELSE linksOf(classOf(Head(frames).make),
                 IF Head(frames).make = "makeComponentStatement" THEN "body"
                 ELSE "children",
                 Head(frames).statements)
             \o linksOfFrames(Tail(frames))

\* every statement built so far, with what holds it
AstLinks ==
    linksOf("parse", "statements", statements)
        \o linksOf("parseOnce", "pending", pending)
        \o linksOfFrames(stack)

LinkIndexes == 1..Len(AstLinks)

ThrownMessage == IF error = <<>> THEN "" ELSE error[1].baseMessage

\* the tag name #makeAtTag reads when the cursor is on an @, else ""
DirectiveAtCursor ==
    IF currentChar(cursor) = "@"
    THEN str(slice(index + 1, skipTagName(advance(cursor, 1)).index))
    ELSE ""

-----------------------------------------------------------------------------
(* Properties                                                              *)

MustBeConsumed ==
    {"ElseIfStatement", "ElseStatement", "ComponentMainSlotStatement",
     "ComponentSlotStatement"}

\* C3: the sequence parse() builds never holds an ElseIf, Else,
\* ComponentMainSlot or ComponentSlot statement as a top-level element, and
\* when #parseOnce hands one to the top-level loop parse() ends with the
\* disallowed-tag error instead of returning.
C3_NoOrphanAtTopLevel ==
    /\ \A i \in 1..Len(statements) : statements[i].class \notin MustBeConsumed
    /\ (stack = <<>> /\ pending # <<>> /\ status # "running")
           => /\ pending[1].class \in MustBeConsumed
              /\ status = "error"
              /\ ThrownMessage = "DisalowedTagContex"
    /\ status = "returned" => pending = <<>>

C3_Witness ==
    /\ status = "error"
    /\ ThrownMessage = "DisalowedTagContex"
    /\ stack = <<>>
    /\ pending # <<>>
    /\ pending[1].class = "ElseStatement"
    /\ statements # <<>>

\* C4: in every tree parse() returns an ElseIf or Else statement is only the
\* `next` of an If or ElseIf, never an element of the children list of an
\* Each, If, ElseIf, Else, ComponentMainSlot or ComponentSlot.
C4_ElseOnlyAsNext ==
    status = "returned"
        => \A i \in LinkIndexes :
               AstLinks[i].child.class \in {"ElseIfStatement", "ElseStatement"}
                   => AstLinks[i].role = "next"

\* C5: from every If, the `next` pointers lead through ElseIf statements to at
\* most one Else and stop there: a `next` is an ElseIf or an Else, an Else has
\* no `next`, and each step moves to a statement that starts later in the
\* source, so no statement is met twice and the walk is finite.
C5_ChainShape ==
    \A i \in LinkIndexes :
        LET s == AstLinks[i].child
        IN  /\ s.class \in ConditionClasses
                => /\ Len(s.next) <= 1
                   /\ \A k \in 1..Len(s.next) :
                          /\ s.next[k].class \in {"ElseIfStatement", "ElseStatement"}
                          /\ s.next[k].position.start > s.position.start
                          /\ s.next[k].position.start < Len(code)
            /\ s.class = "ElseStatement" => "next" \notin DOMAIN s
            /\ AstLinks[i].role = "next"
                   => AstLinks[i].parent \in ConditionClasses

C5_Witness ==
    /\ status = "returned"
    /\ \E i \in 1..Len(statements) :
           /\ statements[i].class = "IfStatement"
           /\ statements[i].next # <<>>
           /\ statements[i].next[1].class = "ElseIfStatement"
           /\ statements[i].next[1].next # <<>>
           /\ statements[i].next[1].next[1].class = "ElseStatement"

CallsParseOnceAt(tagName) == CallsParseOnce /\ DirectiveAtCursor = tagName

RaisesNext(message) == status' = "error" /\ ThrownMessage' = message

\* the top-level statements before place j all have a class of `allowed`
OnlyBefore(j, allowed) == \A i \in 1..(j - 1) : statements[i].class \in allowed

\* a top-level statement of a class outside `allowed` has been produced
ProducedOutside(allowed) ==
    \E i \in 1..Len(statements) : statements[i].class \notin allowed

AfterImport == {"TextStatement", "ImportStatement"}

AfterDefineSlot == {"TextStatement", "ImportStatement", "DefineSlotStatement"}

AfterParam ==
    {"TextStatement", "ImportStatement", "DefineSlotStatement", "ParamStatement"}

\* what holds of the gates and of the top-level statements in every state
GateOrder ==
    /\ ProducedOutside(AfterImport) => ~allowImportStatements
    /\ ProducedOutside(AfterDefineSlot) => ~allowDefineSlotStatement
    /\ ProducedOutside(AfterParam) => ~allowParamStatement
    /\ \A j \in 1..Len(statements) :
           /\ statements[j].class = "ImportStatement" => OnlyBefore(j, AfterImport)
           /\ statements[j].class = "DefineSlotStatement"
                  => OnlyBefore(j, AfterDefineSlot)
           /\ statements[j].class = "ParamStatement" => OnlyBefore(j, AfterParam)

\* what holds of every step of parse()
GateStep ==
    /\ ~allowImportStatements => ~allowImportStatements'
    /\ ~allowDefineSlotStatement => ~allowDefineSlotStatement'
    /\ ~allowParamStatement => ~allowParamStatement'
    /\ (stack = <<>> /\ CallsParseOnceAt("import") /\ ProducedOutside(AfterImport))
           => RaisesNext("InvalidImportSlotsParamsOrder")
    /\ (stack = <<>> /\ CallsParseOnceAt("defslot")
            /\ ProducedOutside(AfterDefineSlot))
           => RaisesNext("InvalidImportSlotsParamsOrder")
    /\ (stack = <<>> /\ CallsParseOnceAt("param") /\ ProducedOutside(AfterParam))
           => RaisesNext("InvalidImportSlotsParamsOrder")

\* C1: gate monotonicity. Once a top-level statement outside {Text, Import}
\* has been produced, every later top-level @import raises the ordering
\* error; likewise @defslot after a statement outside {Text, Import,
\* DefineSlot} and @param after one outside {Text, Import, DefineSlot,
\* Param}. A closed gate is never reopened, so in the sequence parse() builds
\* no Import, DefineSlot or Param follows a statement outside its set.
C1_GateMonotonicity == []GateOrder /\ [][GateStep]_vars

C1_Witness ==
    /\ status = "error"
    /\ ThrownMessage = "InvalidImportSlotsParamsOrder"
    /\ stack = <<>>
    /\ DirectiveAtCursor = "import"
    /\ \E i \in 1..Len(statements) : statements[i].class = "ParamStatement"
    /\ OnlyBefore(Len(statements) + 1, AfterParam)

Declarations == {"ImportStatement", "DefineSlotStatement", "ParamStatement"}

\* C2: an @import, @defslot or @param read in the body of a block (each, if,
\* elseif, else, component, slot) raises the ordering error whatever the
\* gates of parse() are, so no Import, DefineSlot or Param statement is ever
\* an element of a children list or of a component body.
C2_NoDeclarationInBlock ==
    /\ [](\A i \in LinkIndexes :
              AstLinks[i].child.class \in Declarations
                  => AstLinks[i].parent \in {"parse", "parseOnce"})
    /\ [][\A tagName \in {"import", "defslot", "param"} :
              (stack # <<>> /\ CallsParseOnceAt(tagName))
                  => RaisesNext("InvalidImportSlotsParamsOrder")]_vars

C2_Witness ==
    /\ status = "error"
    /\ ThrownMessage = "InvalidImportSlotsParamsOrder"
    /\ DirectiveAtCursor = "param"
    /\ Len(stack) = 2
    /\ stack[1].make = "makeComponentStatement"
    /\ stack[2].make = "makeComponentSlotStatement"
    /\ allowParamStatement

\* the loop that is running reads the body of a component
InComponentBody == stack # <<>> /\ top.make = "makeComponentStatement"

\* C6: an @slot is accepted only when it is read as an element of a component
\* body; at top level and in the body of any other block (also one inside a
\* component, also another slot) it raises the slot-outside-component error.
\* So a slot is only ever being read, or held, directly by a component.
C6_SlotOnlyInComponentBody ==
    /\ [](/\ \A i \in LinkIndexes :
                 AstLinks[i].child.class = "ComponentSlotStatement"
                     => \/ AstLinks[i].parent = "ComponentStatement"
                        \/ AstLinks[i].role = "pending" /\ InComponentBody
          /\ \A k \in 1..Len(stack) :
                 stack[k].make = "makeComponentSlotStatement"
                     => k > 1 /\ stack[k - 1].make = "makeComponentStatement")
    /\ [][(CallsParseOnceAt("slot") /\ ~InComponentBody)
              => RaisesNext("SlotOutsideComponent")]_vars
    /\ [][(CallsParseOnceAt("slot") /\ InComponentBody)
              => ~RaisesNext("SlotOutsideComponent")]_vars

C6_Witness ==
    /\ status = "error"
    /\ ThrownMessage = "SlotOutsideComponent"
    /\ DirectiveAtCursor = "slot"
    /\ Len(stack) = 2
    /\ stack[1].make = "makeComponentStatement"
    /\ stack[2].make = "makeEachStatement"

\* `slots` and `main` are the statements of `body` that are, and that are
\* not, ComponentSlot statements, each in the order of `body`
RECURSIVE IsPartition(_, _, _)
IsPartition(body, slots, main) ==
    IF body = <<>> THEN slots = <<>> /\ main = <<>>
    ELSE IF Head(body).class = "ComponentSlotStatement"
    THEN /\ slots # <<>>
         /\ Head(slots).class = Head(body).class
         /\ Head(slots) = Head(body)
         /\ IsPartition(Tail(body), Tail(slots), main)
    ELSE /\ main # <<>>
         /\ Head(main).class = Head(body).class
         /\ Head(main) = Head(body)
         /\ IsPartition(Tail(body), slots, Tail(main))

\* the statements of `list` start one after the other in the source
InSourceOrder(list) ==
    \A i \in 1..(Len(list) - 1) : list[i].position.end <= list[i + 1].position.start

\* C7: when a component's body has been read up to its @end, the slot list
\* of the Component holds exactly the ComponentSlot statements of the body
\* and the children of its MainSlot exactly the other statements, both in
\* source order, every body statement in exactly one of the two.
C7_ComponentPartition ==
    /\ [](\A i \in LinkIndexes :
              LET s == AstLinks[i].child
              IN  s.class = "ComponentStatement"
                      => /\ \A k \in 1..Len(s.slots) :
                                s.slots[k].class = "ComponentSlotStatement"
                         /\ \A k \in 1..Len(s.mainSlot.children) :
                                s.mainSlot.children[k].class
                                    # "ComponentSlotStatement"
                         /\ InSourceOrder(s.slots)
                         /\ InSourceOrder(s.mainSlot.children))
    /\ [][(status = "running" /\ pending # <<>> /\ InComponentBody
               /\ pending[1].name \in top.statementNames)
              => /\ pending'[1].class = "ComponentStatement"
                 /\ IsPartition(top.statements, pending'[1].slots,
                                pending'[1].mainSlot.children)]_vars

C7_Witness ==
    /\ status = "returned"
    /\ \E i \in 1..Len(statements) :
           /\ statements[i].class = "ComponentStatement"
           /\ Len(statements[i].slots) = 1
           /\ Len(statements[i].mainSlot.children) = 2
           /\ statements[i].mainSlot.children[1].position.start
                  < statements[i].slots[1].position.start
           /\ statements[i].slots[1].position.start
                  < statements[i].mainSlot.children[2].position.start

\* the cursor is on an @defslot whose name, once trimmed, is main
DefSlotMainAtCursor ==
    areNextChars(cursor, srcDefSlotMain) \/ areNextChars(cursor, srcDefSlotMainType)

NoDefineSlotNamedMain ==
    \A i \in LinkIndexes :
        AstLinks[i].child.class = "DefineSlotStatement"
            => str(AstLinks[i].child.slotName.value) # "main"

\* C8 as stated: an @defslot whose trimmed name is main, with or without an
\* argument type, always raises the reserved-name error and never produces a
\* DefineSlot statement.
C8_AlwaysReservedName ==
    /\ []NoDefineSlotNamedMain
    /\ [][(CallsParseOnce /\ DefSlotMainAtCursor)
              => RaisesNext("SlotDefinitionNamedMain")]_vars

\* C8 as amended: an @defslot whose trimmed name is main, with or without an
\* argument type, never produces a DefineSlot statement: read by parse()
\* while the DefineSlot gate is open it raises the reserved-name error, and
\* read after the gate has closed, or in a block, it raises the ordering
\* error.
C8_ReservedNameWhereAllowed ==
    /\ []NoDefineSlotNamedMain
    /\ [][(CallsParseOnce /\ DefSlotMainAtCursor)
              => RaisesNext(IF stack = <<>> /\ allowDefineSlotStatement
                            THEN "SlotDefinitionNamedMain"
                            ELSE "InvalidImportSlotsParamsOrder")]_vars

C8_Witness ==
    /\ status = "error"
    /\ ThrownMessage = "SlotDefinitionNamedMain"
    /\ areNextChars(cursor, srcDefSlotMainType)
    /\ \E i \in 1..Len(statements) : statements[i].class = "DefineSlotStatement"

\* C9: an @slot named main in a component body raises the reserved-slot-name
\* error, so no ComponentSlot named main is ever part of a Component.
C9_NoSlotNamedMain ==
    status = "returned"
        => \A i \in LinkIndexes :
               (/\ AstLinks[i].parent = "ComponentStatement"
                /\ AstLinks[i].child.class = "ComponentSlotStatement")
                   => str(AstLinks[i].child.slotName.value) # "main"

\* the text that `chars` stands for: \{{ is {{ and \@ is @
RECURSIVE unescaped(_)
unescaped(chars) ==
    IF chars = <<>> THEN <<>>
    ELSE IF Len(chars) >= 3 /\ SubSeq(chars, 1, 3) = <<"\\", "{", "{">>
    THEN <<"{", "{">> \o unescaped(SubSeq(chars, 4, Len(chars)))
    ELSE IF Len(chars) >= 2 /\ SubSeq(chars, 1, 2) = <<"\\", "@">>
    THEN <<"@">> \o unescaped(SubSeq(chars, 3, Len(chars)))
    ELSE <<Head(chars)>> \o unescaped(Tail(chars))

\* C10: in text, \{{ adds the two characters {{ and \@ adds the character @
\* to the pending literal, and neither opens an inline expression or a
\* directive: a Text statement holds the characters of its source range with
\* every escape sequence replaced by what it stands for.
C10_EscapesAreLiteral ==
    \A i \in LinkIndexes :
        LET s == AstLinks[i].child
        IN  s.class = "TextStatement"
                => s.value = unescaped(slice(s.position.start, s.position.end))

\* an inline-expression opener, an @ or the end of the input is at offset i
TextEnderAt(i) ==
    \/ getCharAt(i) = undefined
    \/ getCharAt(i) = "@"
    \/ getCharAt(i) = "{" /\ getCharAt(i + 1) = "{"
    \/ getCharAt(i) = "!" /\ getCharAt(i + 1) = "{" /\ getCharAt(i + 2) = "{"

\* C11: text accumulation is ended only by {{, by !{{, by an unescaped @ or
\* by the end of the input, so every Text statement ends where one of these
\* is; a ! followed by one { and another character is ordinary text and
\* raises no error.
C11_TextEndsOnlyAtOpener ==
    /\ \A i \in LinkIndexes :
           AstLinks[i].child.class = "TextStatement"
               => TextEnderAt(AstLinks[i].child.position.end)
    /\ (status = "error" /\ stack = <<>>)
           => ~(getCharAt(index) = "!" /\ getCharAt(index + 1) = "{"
                    /\ getCharAt(index + 2) # "{")

\* the offset after the opener {{ or !{{ at the cursor when -- follows it,
\* else -1
commentOpenerEnd ==
    IF areNextChars(cursor, <<"{", "{", "-", "-">>) THEN index + 4
    ELSE IF areNextChars(cursor, <<"!", "{", "{", "-", "-">>) THEN index + 5
    ELSE -1

\* the offset after the first --}} at or after offset i, else -1
RECURSIVE commentEnd(_)
commentEnd(i) ==
    IF i + 4 > Len(code) THEN -1
    ELSE IF slice(i, i + 4) = <<"-", "-", "}", "}">> THEN i + 4
    ELSE commentEnd(i + 1)

\* what #parseOnce of the loop that is running returns when called at `c`
parseOnceFrom(c) ==
    IF stack = <<>>
    THEN parseOnce(c, allowImportStatements, allowDefineSlotStatement,
                   allowParamStatement, FALSE)
    ELSE parseOnce(c, FALSE, FALSE, FALSE, top.allowSlotStatement)

\* the step taken is the one #parseOnce would take from `c`, up to the
\* offset at which a Text statement starts
StepsAsFrom(c) ==
    LET resumed == parseOnceFrom(c)
    IN  IF isAtEnd(c)
        THEN status' = "running" /\ index' = c.index
                 /\ (pending' = <<>> \/ pending'[1].class = "TextStatement")
        ELSE IF resumed.thrown
        THEN status' = "error" /\ error' = <<resumed.error>>
        ELSE /\ status' = "running"
             /\ index' = resumed.cur.index
             /\ IF resumed.kind = "statement"
                THEN /\ pending' # <<>>
                     /\ pending'[1].class = resumed.statement.class
                     /\ stack' = stack
                ELSE /\ pending' = <<>>
                     /\ stack' = Append(stack, resumed.frame)

\* C12: when {{ or !{{ is followed at once by --, everything up to and with
\* the next --}} is skipped, whatever the comment holds, and #parseOnce goes
\* on right after it: the call does what a call starting after the comment
\* would do, and builds no Inline statement for the comment.
C12_CommentIsSkipped ==
    [][(/\ CallsParseOnce
        /\ commentOpenerEnd # -1
        /\ commentEnd(commentOpenerEnd) # -1)
           => StepsAsFrom(advance(cursor, commentEnd(commentOpenerEnd) - index))]_vars

\* C13: a comment adds no statement to what parse() returns: no Text
\* statement of a returned tree, at top level or as a child, has an empty
\* literal text.
C13_NoEmptyText ==
    status = "returned"
        => \A i \in LinkIndexes :
               AstLinks[i].child.class = "TextStatement"
                   => AstLinks[i].child.value # <<>>

\* what is left to do: the input not yet read, the open blocks and the
\* statement not yet stored
workLeft == 3 * (Len(code) - index) + Len(stack) + Len(pending)

\* a step of parse(): a call of #parseOnce moves the cursor forward or
\* throws, every other step stores or wraps what was read
AdvancesOrEnds ==
    /\ status = "running"
    /\ CallsParseOnce => (status' = "error" \/ index' > index)
    /\ (CallsParseOnce /\ ~parsed.thrown) => parsed.cur.index > index
    /\ status' = "running" => (index' >= index /\ workLeft' < workLeft)

\* C14: parse() terminates on every source text: every step is taken while
\* parse() runs, a call of #parseOnce moves the cursor forward or throws,
\* and every step that does not end parse() leaves less to do, which is
\* never below -3; parse() ends either returning with the whole input read
\* and nothing left open or throwing an error.
C14_Terminates ==
    /\ [][AdvancesOrEnds]_vars
    /\ [](status = "running" => workLeft >= -3)
    /\ [](status = "returned"
              => index >= Len(code) /\ pending = <<>> /\ stack = <<>>)
    /\ [](status = "error" <=> error # <<>>)

C14_Witness ==
    /\ status = "returned"
    /\ index = Len(code)
    /\ Len(statements) >= 2
    /\ \E i \in 1..Len(statements) :
           /\ statements[i].class = "EachStatement"
           /\ statements[i].children # <<>>

\* C15: every failure of parse() is a ParserError whose position starts
\* strictly below its end, so getPositionInFile finds the start of the
\* position in its loop; parse() fails with no other kind of error, and when
\* it fails it returns nothing.
C15_PositionedError ==
    /\ status = "error"
           => /\ Len(error) = 1
              /\ error[1].class = "ParserError"
              /\ error[1].position.start < error[1].position.end
              /\ getPositionInFile(error[1].position).start # <<>>
              /\ getPositionInFile(error[1].position).start[1].index
                     = error[1].position.start
    /\ status = "returned" => error = <<>>

C15_Witness ==
    /\ status = "error"
    /\ ThrownMessage = "Unexpcted"
    /\ error[1].position.start = Len(code)
    /\ getPositionInFile(error[1].position).start[1].line = 1
    /\ stack # <<>>

RECURSIVE expressionsOf(_)
RECURSIVE expressionsOfAll(_)

\* the Expressions of the statements of `list` and of their descendants
expressionsOfAll(list) ==
    IF list = <<>> THEN <<>> ELSE expressionsOf(Head(list)) \o expressionsOfAll(Tail(list))

\* the Expressions a statement and its descendants own, in source order of
\* their roles
expressionsOf(s) ==
    CASE s.class \in {"InlineTsCodeStatement", "InlineSafeTsCodeStatement",
                      "ImportStatement"} -> <<s.expression>>
      [] s.class = "EachStatement" ->
             <<s.variable, s.iterator>> \o expressionsOfAll(s.children)
      [] s.class \in ConditionClasses ->
             <<s.expression>> \o expressionsOfAll(s.children) \o expressionsOfAll(s.next)
      [] s.class \in {"ElseStatement", "ComponentMainSlotStatement"} ->
             expressionsOfAll(s.children)
      [] s.class = "LetStatement" -> <<s.variableName>> \o s.value
      [] s.class = "AssignStatement" -> <<s.variableName, s.value>>
      [] s.class = "ParamStatement" -> <<s.paramName, s.type>> \o s.defaultValue
      [] s.class = "DefineSlotStatement" -> <<s.slotName>> \o s.slotArguments
      [] s.class = "ComponentStatement" ->
             <<s.component, s.params>> \o expressionsOf(s.mainSlot)
                 \o expressionsOfAll(s.slots)
      [] s.class = "ComponentSlotStatement" ->
             <<s.slotName>> \o s.paramsVariable \o expressionsOfAll(s.children)
      [] OTHER -> <<>>

\* toMappedString() has been called on the fragment of a statement
Mapped == call # <<>> /\ call[1].op = "toMappedString"

\* the generated text an entry of the map points at
generatedAt(entry) ==
    stringSlice(call[1].result.string, entry.generatedOffset,
                entry.generatedOffset + entry.length)

\* C16: round-trip offset law. Every entry of the map toMappedString()
\* returns for the fragment of a parsed statement points, in the generated
\* text, at the raw text of the Expression of that statement whose position
\* starts at the entry's sourceOffset, at every depth; that raw text is the
\* source text from sourceOffset on.
C16_RoundTripOffsets ==
    Mapped
        => \A k \in 1..Len(call[1].result.maps) :
               LET entry == call[1].result.maps[k]
                   owned == expressionsOf(call[1].statement)
               IN  /\ entry.generatedOffset + entry.length
                          <= Len(call[1].result.string)
                   /\ \E e \in 1..Len(owned) :
                          owned[e].position.start = entry.sourceOffset
                   /\ \A e \in 1..Len(owned) :
                          owned[e].position.start = entry.sourceOffset
                              => generatedAt(entry) = owned[e].value
                   /\ generatedAt(entry)
                          = slice(entry.sourceOffset, entry.sourceOffset + entry.length)

C16_Witness ==
    /\ Mapped
    /\ call[1].statement.class = "ComponentStatement"
    /\ \E k \in 1..Len(call[1].result.maps) :
           /\ call[1].result.maps[k].sourceOffset > call[1].statement.position.start + 20
           /\ call[1].result.maps[k].generatedOffset > 40
           /\ generatedAt(call[1].result.maps[k]) = <<"n">>

\* C17: the map has exactly one entry for every Expression the statement or
\* its descendants own, in their order, and none for a statement or an
\* array fragment: only the Expression leaves are marked as mapped.
C17_OneEntryPerExpression ==
    Mapped
        => /\ Len(call[1].result.maps) = Len(expressionsOf(call[1].statement))
           /\ \A k \in 1..Len(call[1].result.maps) :
                  /\ call[1].result.maps[k].sourceOffset
                         = expressionsOf(call[1].statement)[k].position.start
                  /\ call[1].result.maps[k].length
                         = Len(expressionsOf(call[1].statement)[k].value)

C17_Witness ==
    /\ Mapped
    /\ call[1].statement.class = "IfStatement"
    /\ call[1].statement.next # <<>>
    /\ call[1].statement.next[1].children # <<>>
    /\ Len(call[1].result.maps) = 2

\* reading `string` left to right, each \\ stands for \, each \" for " and
\* each \n for a line break
RECURSIVE unescapedString(_)
unescapedString(string) ==
    IF string = <<>> THEN <<>>
    ELSE IF Len(string) >= 2 /\ SubSeq(string, 1, 2) = <<"\\", "\\">>
    THEN <<"\\">> \o unescapedString(SubSeq(string, 3, Len(string)))
    ELSE IF Len(string) >= 2 /\ SubSeq(string, 1, 2) = <<"\\", "\"">>
    THEN <<"\"">> \o unescapedString(SubSeq(string, 3, Len(string)))
    ELSE IF Len(string) >= 2 /\ SubSeq(string, 1, 2) = <<"\\", "n">>
    THEN <<"\n">> \o unescapedString(SubSeq(string, 3, Len(string)))
    ELSE <<Head(string)>> \o unescapedString(Tail(string))

\* reading `string` left to right, every backslash escapes the character
\* after it, and no line break and no double quote stands unescaped
RECURSIVE isEscaped(_)
isEscaped(string) ==
    IF string = <<>> THEN TRUE
    ELSE IF Head(string) = "\\"
    THEN /\ Len(string) >= 2
         /\ string[2] \in {"\\", "\"", "n"}
         /\ isEscaped(SubSeq(string, 3, Len(string)))
    ELSE Head(string) \notin {"\"", "\n"} /\ isEscaped(Tail(string))

SafeStringReturned == call # <<>> /\ call[1].op = "safeString" /\ call[1].returned

\* C18: safeString is invertible: unescaping safeString(s) from left to
\* right gives back s, and safeString(s) holds no line break and no double
\* quote without an escaping backslash before it.
C18_SafeStringInvertible ==
    SafeStringReturned
        => /\ unescapedString(call[1].result) = call[1].value
           /\ isEscaped(call[1].result)
           /\ \A i \in 1..Len(call[1].result) : call[1].result[i] # "\n"

C18_Witness ==
    /\ SafeStringReturned
    /\ call[1].value = <<"\\", "n", "\n", "\"">>
    /\ call[1].result = <<"\\", "\\", "n", "\\", "n", "\\", "\"">>

\* the lines of `string`, each without its line break
RECURSIVE linesOf(_, _)
linesOf(string, lineSoFar) ==
    IF string = <<>> THEN <<lineSoFar>>
    ELSE IF Head(string) = "\n" THEN <<lineSoFar>> \o linesOf(Tail(string), <<>>)
    ELSE linesOf(Tail(string), Append(lineSoFar, Head(string)))

\* the properties of the interface in `string`: its lines that start with a
\* tab, without the tab
propertiesOf(string) ==
    SelectSeq([k \in 1..Len(linesOf(string, <<>>)) |->
                   IF linesOf(string, <<>>)[k] # <<>> /\ Head(linesOf(string, <<>>)[k]) = "\t"
                   THEN Tail(linesOf(string, <<>>)[k]) ELSE <<>>],
              LAMBDA l : l # <<>>)

\* the statements before the first one that Param statements may not follow
RECURSIVE declarationRun(_)
declarationRun(list) ==
    IF list = <<>> THEN <<>>
    ELSE IF list[1].class \notin AfterParam THEN <<>>
    ELSE <<list[1]>> \o declarationRun(Tail(list))

ParamsOf(list) == SelectSeq(declarationRun(list), LAMBDA s : s.class = "ParamStatement")

\* the property a Param statement stands for
PropertyOf(s) ==
    s.paramName.value \o (IF s.defaultValue # <<>> THEN <<"?">> ELSE <<>>)
        \o <<":", " ">> \o s.type.value

ParamsCalled == call # <<>> /\ call[1].op = "paramsToCodeString"

\* C19: the text of paramsToCodeString holds one property per Param
\* statement of the leading run of declarations, in order; the property of a
\* Param with a default value is marked optional with ?, the one of a Param
\* without default is not, and its type is the type expression as written.
C19_ParamProperties ==
    ParamsCalled
        => propertiesOf(call[1].result)
               = [k \in 1..Len(ParamsOf(call[1].statements)) |->
                      PropertyOf(ParamsOf(call[1].statements)[k])]

\* where the chain of `s` ends: the end of the last statement of its
\* elseif/else chain, the end of `s` when it has no `next`
RECURSIVE spanEnd(_)
spanEnd(s) ==
    IF s.class \in ConditionClasses /\ s.next # <<>> THEN spanEnd(s.next[1])
    ELSE s.position.end

\* each statement of `list` starts where the one before it ends, the first
\* one at `from`
StartsAtEnds(list, from) ==
    \A i \in 1..Len(list) :
        list[i].position.start
            = (IF i = 1 THEN from ELSE list[i - 1].position.end)

\* each statement of `list` starts where the chain of the one before it ends
StartsAtSpanEnds(list, from) ==
    \A i \in 1..Len(list) :
        list[i].position.start = (IF i = 1 THEN from ELSE spanEnd(list[i - 1]))

\* C20 as stated: the position of every statement is the range the parser
\* consumed to build it: it ends at the cursor offset when its grammar
\* completed (else/elseif chain and closing @end included), so that the
\* statements parse() returns follow each other without gap from offset 0
\* to the end of the source.
C20_PositionIsConsumedRange ==
    /\ pending # <<>> => pending[1].position.end = index
    /\ StartsAtEnds(statements, 0)
    /\ (status = "returned" /\ statements # <<>>)
           => statements[Len(statements)].position.end = Len(code)

\* C20 amended: the position of a statement ends at the cursor offset when
\* its grammar completed, except that an If or ElseIf statement with a `next`
\* ends where its `next` starts, which is where its own children end; the
\* last statement of the chain ends at the cursor after the closing @end.
\* The statements parse() returns follow each other, chain by chain, without
\* gap from offset 0 to the end of the source.
C20_PositionEndsAtNextOrCursor ==
    /\ pending # <<>> => spanEnd(pending[1]) = index
    /\ \A k \in LinkIndexes :
           (AstLinks[k].child.class \in ConditionClasses
                /\ AstLinks[k].child.next # <<>>)
               => /\ AstLinks[k].child.position.end
                         = AstLinks[k].child.next[1].position.start
                  /\ AstLinks[k].child.children # <<>>
                         => spanEnd(AstLinks[k].child.children[
                                        Len(AstLinks[k].child.children)])
                                = AstLinks[k].child.position.end
    /\ \A k \in LinkIndexes :
           AstLinks[k].child.class \in ChildrenClasses \cup ConditionClasses
               => /\ AstLinks[k].child.children # <<>>
                         => AstLinks[k].child.children[1].position.start
                                > AstLinks[k].child.position.start
                  /\ StartsAtSpanEnds(AstLinks[k].child.children,
                                      IF AstLinks[k].child.children = <<>> THEN 0
                                      ELSE AstLinks[k].child.children[1].position.start)
    /\ StartsAtSpanEnds(statements, 0)
    /\ (status = "returned" /\ statements # <<>>)
           => spanEnd(statements[Len(statements)]) = Len(code)

\* parse() returned an If statement with an else and a statement after it
C20_Witness ==
    /\ status = "returned"
    /\ Len(statements) = 2
    /\ statements[1].class = "IfStatement"
    /\ statements[1].next # <<>>
    /\ statements[1].position.end = statements[1].next[1].position.start
    /\ statements[1].position.end < statements[2].position.start
    /\ statements[2].position.end = Len(code)

\* the number of line breaks of the source strictly before offset i
lineBreaksBefore(i) == Cardinality({k \in 0..(i - 1) : getCharAt(k) = "\n"})

\* C21: the line counter counts the line breaks passed over: for every
\* statement built, position.lineStart is the number of line breaks of the
\* source strictly before position.start, also when the source begins with
\* a line break and when the statement starts on a line break.
C21_LineStartCountsLineBreaks ==
    \A k \in LinkIndexes :
        AstLinks[k].child.position.lineStart
            = lineBreaksBefore(AstLinks[k].child.position.start)

\* the Expressions a directive statement holds itself
argumentsOf(s) ==
    CASE s.class = "ImportStatement" -> <<s.expression>>
      [] s.class = "EachStatement" -> <<s.variable, s.iterator>>
      [] s.class \in ConditionClasses -> <<s.expression>>
      [] s.class = "LetStatement" -> <<s.variableName>> \o s.value
      [] s.class = "AssignStatement" -> <<s.variableName, s.value>>
      [] s.class = "ParamStatement" -> <<s.paramName, s.type>> \o s.defaultValue
      [] s.class = "DefineSlotStatement" -> <<s.slotName>> \o s.slotArguments
      [] s.class = "ComponentStatement" -> <<s.component, s.params>>
      [] s.class = "ComponentSlotStatement" -> <<s.slotName>> \o s.paramsVariable
      [] OTHER -> <<>>

\* C22: every Expression a directive statement holds has a raw text that is
\* not empty: an argument that is empty after trimming makes parse() fail,
\* and no statement is built from it.
C22_NoEmptyArgument ==
    \A k \in LinkIndexes :
        \A i \in 1..Len(argumentsOf(AstLinks[k].child)) :
            argumentsOf(AstLinks[k].child)[i].value # <<>>

\* the closer of an opening bracket
closerOf(opener) ==
    CASE opener = "(" -> ")" [] opener = "[" -> "]" [] opener = "{" -> "}"

\* a terminator of `untilChars` begins at offset i
terminatorAt(i, untilChars) ==
    \E k \in 1..Len(untilChars) : areNextChars(Cursor(i, 0), untilChars[k])

\* the first offset from i on at which a terminator begins with no bracket
\* open, -1 when there is none; `open` holds the brackets opened and not yet
\* closed, and only the closer of the last one closes it
RECURSIVE scanEnd(_, _, _)
scanEnd(i, open, untilChars) ==
    IF getCharAt(i) = undefined THEN -1
    ELSE IF getCharAt(i) \in PAREN_START
    THEN scanEnd(i + 1, Append(open, getCharAt(i)), untilChars)
    ELSE IF open # <<>> /\ getCharAt(i) = closerOf(open[Len(open)])
    THEN scanEnd(i + 1, SubSeq(open, 1, Len(open) - 1), untilChars)
    ELSE IF open = <<>> /\ terminatorAt(i, untilChars) THEN i
    ELSE scanEnd(i + 1, open, untilChars)

Scanned == call # <<>> /\ call[1].op = "skipUntilAndWith" /\ call[1].returned

\* C23: the scan ends at the first offset at which a terminator begins while
\* no bracket is open, a bracket being closed only by the closer that matches
\* the bracket opened last; it fails when there is no such offset.
C23_ScanEndsAtDepthZero ==
    Scanned
        => IF call[1].result[1].thrown
           THEN scanEnd(0, <<>>, call[1].untilChars) = -1
           ELSE scanEnd(0, <<>>, call[1].untilChars)
                    = index - Len(call[1].result[1].controllChar)

\* the Expressions a statement holds itself
ownExpressions(s) ==
    IF s.class \in {"InlineTsCodeStatement", "InlineSafeTsCodeStatement"}
    THEN <<s.expression>>
    ELSE argumentsOf(s)

\* the position of `e` is the place of its raw text in the source, and the
\* raw text neither starts nor ends with white space
IsTrimmedInPlace(e) ==
    /\ e.position.start <= e.position.end
    /\ slice(e.position.start, e.position.end) = e.value
    /\ e.value # <<>>
           => /\ e.value[1] \notin WhiteSpace
              /\ e.value[Len(e.value)] \notin WhiteSpace
    /\ e.value = <<>> => e.position.start = e.position.end

\* C24: for every Expression of the statements built, the source text at
\* [position.start, position.end) is the raw text of the expression, and the
\* raw text has no white space at its start or at its end; an argument of
\* white space only has start = end.
C24_ExpressionIsTrimmedSlice ==
    \A k \in LinkIndexes :
        \A i \in 1..Len(ownExpressions(AstLinks[k].child)) :
            IsTrimmedInPlace(ownExpressions(AstLinks[k].child)[i])

\* parse() returned an If statement whose condition had white space on both
\* sides, and an inline expression of white space only
C24_Witness ==
    /\ status = "returned"
    /\ \E k \in LinkIndexes :
           /\ AstLinks[k].child.class = "IfStatement"
           /\ AstLinks[k].child.expression.value = <<"c">>
           /\ AstLinks[k].child.expression.position.start
                  = AstLinks[k].child.position.start + 6
           /\ AstLinks[k].child.expression.position.end
                  = AstLinks[k].child.position.start + 7
    /\ \E k \in LinkIndexes :
           /\ AstLinks[k].child.class = "InlineSafeTsCodeStatement"
           /\ AstLinks[k].child.expression.value = <<>>

\* the text of a candidate child: what it flattens to, nothing for null
textOfChild(child) == IF child = <<>> THEN <<>> ELSE toMappedString(child[1]).string

\* L0 + text(c0) + L1 + ... + text(c(n-1)) + Ln, from piece i on
RECURSIVE interleaved(_, _, _)
interleaved(literals, children, i) ==
    IF i > Len(children) THEN literals[i]
    ELSE literals[i] \o textOfChild(children[i]) \o interleaved(literals, children, i + 1)

\* the total length of the literal pieces before child i (L0..L(i-1) of
\* the claim are literals[1..i] here, i counting from 1)
RECURSIVE lengthBefore(_, _)
lengthBefore(literals, i) ==
    IF i = 0 THEN 0 ELSE Len(literals[i]) + lengthBefore(literals, i - 1)

\* the places, in `children`, of the children that give a fragment
RECURSIVE survivors(_, _)
survivors(children, i) ==
    IF i > Len(children) THEN <<>>
    ELSE IF children[i] = <<>> THEN survivors(children, i + 1)
    ELSE <<i>> \o survivors(children, i + 1)

Built == call # <<>> /\ call[1].op = "builder" /\ call[1].returned

\* C25: the builder keeps the children that give a fragment, in their order,
\* each with the total length of the literal pieces before it as its splice
\* offset (pieces before a child that gives nothing count), and flattening
\* gives L0 + text(c0) + L1 + ... + text(c(n-1)) + Ln.
C25_BuilderInterleaves ==
    Built
        => /\ Len(call[1].built[1].children) = Len(survivors(call[1].children, 1))
           /\ \A j \in 1..Len(call[1].built[1].children) :
                  call[1].built[1].children[j]
                      = [call[1].children[survivors(call[1].children, 1)[j]][1]
                             EXCEPT !.parentOffset =
                                 lengthBefore(call[1].literals,
                                              survivors(call[1].children, 1)[j])]
           /\ call[1].result[1].string
                  = interleaved(call[1].literals, call[1].children, 1)

\* a child that gives nothing stood between two children that give text
C25_Witness ==
    /\ Built
    /\ call[1].literals = <<<<"a">>, <<"b", "c">>, <<"a">>, <<>>>>
    /\ call[1].children = <<leafChild, <<>>, nestedChild>>
    /\ call[1].built[1].children[2].parentOffset = 4
    /\ call[1].result[1].string = <<"a", "n", "b", "c", "a", "i", "f", "n", ";">>

\* `text` starts with `start`
startsWith(text, start) ==
    Len(text) >= Len(start) /\ SubSeq(text, 1, Len(start)) = start

\* how the branch of `next` opens in both renderers
branchOpening(next) ==
    IF next.class = "ElseIfStatement"
    THEN <<"e", "l", "s", "e", " ", "i", "f", " ", "(">> \o next.expression.value \o <<")", " ", "{">>
    ELSE <<"e", "l", "s", "e", " ", "{">>

\* `text` is `own`, the text of a branch up to its closing brace, then white
\* space only, then the opening of the branch of `next`
HasSkeleton(text, own, next) ==
    /\ own # <<>> /\ own[Len(own)] = "}"
    /\ startsWith(text, own)
    /\ startsWith(trimStart(SubSeq(text, Len(own) + 1, Len(text))), branchOpening(next))

Compiled == call # <<>> /\ call[1].op = "toCompiledString"

\* C26: in the executable string of an If statement with a `next`,
\* the closing brace of its branch is followed, after white space only, by
\* `else if (cond) {` for an ElseIf and by `else {` for an Else, as in the
\* structured fragment.
C26_SameConditionalSkeleton ==
    (Compiled /\ call[1].statement.class \in ConditionClasses
         /\ call[1].statement.next # <<>>)
        => HasSkeleton(call[1].result,
                       toCompiledString([call[1].statement EXCEPT !.next = <<>>]),
                       call[1].statement.next[1])

RECURSIVE Mirrors(_, _)

\* the objects of `objects` mirror the statements of `list`, one by one
MirrorsAll(list, objects) ==
    /\ Len(objects) = Len(list)
    /\ \A i \in 1..Len(list) : Mirrors(list[i], objects[i])

\* the expression-valued fields of the object `o` are the raw texts of the
\* expressions of the statement `s`, and so below it
Mirrors(s, o) ==
    CASE s.class \in {"InlineTsCodeStatement", "InlineSafeTsCodeStatement",
                      "ImportStatement"} -> o.expression = s.expression.value
      [] s.class = "EachStatement" ->
             /\ o.variable = s.variable.value
             /\ o.iterator = s.iterator.value
             /\ MirrorsAll(s.children, o.children)
      [] s.class \in ConditionClasses ->
             /\ o.expression = s.expression.value
             /\ MirrorsAll(s.children, o.children)
             /\ MirrorsAll(s.next, o.next)
      [] s.class \in {"ElseStatement", "ComponentMainSlotStatement"} ->
             MirrorsAll(s.children, o.children)
      [] s.class = "LetStatement" ->
             /\ o.variableName = s.variableName.value
             /\ o.variableValue = optionToString(s.value)
      [] s.class = "AssignStatement" ->
             /\ o.variableName = s.variableName.value
             /\ o.variableValue = s.value.value
      [] OTHER -> TRUE

Objected == call # <<>> /\ call[1].op = "toObject"

\* C27: each expression-valued field of the plain description of a statement
\* is the raw text of the corresponding expression of the statement, at every
\* depth; for an Each, `variable` is its variable and `iterator` its iterator.
C27_ObjectMirrorsStatement ==
    (Objected /\ call[1].result # <<>>)
        => Mirrors(call[1].statement, call[1].result[1])

\* C29: the name of a statement is the type of its plain description, and
\* statements of different variants never have the same name.
C29_NameIsVariantAndType ==
    /\ (Objected /\ call[1].result # <<>>)
           => call[1].statement.name = call[1].result[1].type
    /\ \A k, l \in LinkIndexes :
           AstLinks[k].child.class # AstLinks[l].child.class
               => AstLinks[k].child.name # AstLinks[l].child.name

\* no End statement is held by parse() or by a block
NoEndStatementHeld ==
    \A k \in LinkIndexes :
        AstLinks[k].parent # "parseOnce" => AstLinks[k].child.class # "EndStatement"

\* parse() throws when #parseOnce hands it an End statement
EndAtTopLevelThrows ==
    (stack = <<>> /\ pending # <<>> /\ pending[1].class = "EndStatement")
        => status' = "error"

\* C28: no End statement is an element of the sequence parse() builds or of
\* a children list, and an @end read at top level with no block open makes
\* parse() raise an error.
C28_NoEndStatementInAst == []NoEndStatementHeld /\ [][EndAtTopLevelThrows]_vars

Copied == call # <<>> /\ call[1].op = "copy" /\ call[1].returned

\* C30: the copy of a range has the start, the end and the lineStart of the
\* range, hence its length.
C30_CopyIsEqual ==
    Copied
        => /\ call[1].result[1].start = call[1].position.start
           /\ call[1].result[1].end = call[1].position.end
           /\ call[1].result[1].lineStart = call[1].position.lineStart
           /\ length(call[1].result[1]) = length(call[1].position)

====
